---- MODULE Spec2Model ----
(***************************************************************************)
(* Model of the FarsiHub scraping scripts.                                 *)
(*                                                                         *)
(*  Part I   stable ID generation (farsiplex_scraper_dooplay.py,           *)
(*           test_id_generation.py): IDs computed by several processes,    *)
(*           each with its own randomised string-hash seed.                *)
(*  Part II  the Namakadeh master scraper's checkpointed parallel harvest  *)
(*           (namakadeh_master_scraper.py): run_complete_scrape and        *)
(*           verify_series_completeness with their worker pool, the        *)
(*           SIGINT handler, the two locks and the checkpoint file, and    *)
(*           the menu's maintenance operations.                            *)
(*  Part III what the master scraper reads off a loaded checkpoint         *)
(*           (analyze_checkpoint_status and the task lists).               *)
(*  Part IV  the rate limit of the serial IMVBox fetcher.                  *)
(*  Part V   one concurrent batch of the async IMVBox scraper.             *)
(*  Part VI  the order-based dates of imvbox_scraper_v4.py.                *)
(*  Part VII fetch_paginated of rebuild_farsiland_db.py.                   *)
(*  Part VIII the master scraper's catalogue discovery.                    *)
(*  Part IX  the database writes of farsiplex_scraper_dooplay.py.          *)
(***************************************************************************)
EXTENDS Integers, Sequences, FiniteSets, TLC

VARIABLES
  procSeed,     \* Part I: per process, the string-hash seed drawn at start-up
  procCalls,    \* Part I: per process, number of ID computations made so far
  idTable,      \* Part I: per process, slug -> last ID computed (NoId if none)
  returned      \* Part I: slug -> set of every ID any call has returned

idVars == <<procSeed, procCalls, idTable, returned>>

VARIABLES
  \* --- the process and its module-level state
  mpc,             \* main thread: where it is (menu, submit, collect, ...)
  op,              \* the menu operation in progress: "none", "run", "verify"
  should_stop,     \* global should_stop
  sigInstalled,    \* signal.signal(SIGINT, signal_handler) has been called
  hpc,             \* signal_handler: "idle", or "running" on top of the main thread
  print_lock,      \* "free", or "main" while the main thread is inside progress_print
  checkpoint_lock, \* "free" or "main"
  \* --- the checkpoint in memory (a heap of dicts, lists of references)
  showObj,         \* show dict objects: reference -> record
  epObj,           \* episode dict objects: reference -> record
  all_shows,       \* checkpoint['shows']: list of show references
  all_episodes,    \* checkpoint['episodes']: list of episode references
  phase,           \* checkpoint['phase']
  \* --- the executor
  num_workers,     \* max_workers of the ThreadPoolExecutor
  tasks,           \* the task list of this operation
  tpc,             \* per task: "new", "queued", "get", "video", "loop", "done"
  tidx,            \* per task: the worker's loop index
  teps,            \* per task: the episode references the worker has collected
  tok,             \* per task: result['success']
  nsub,            \* index of the next task to submit
  processed,       \* futures as_completed has yielded and the loop has handled
  tasks_completed, \* tasks_completed / total_verified
  \* --- the checkpoint file and the save in progress
  file,            \* content of CHECKPOINT_FILE
  saveBuf,         \* what the running json.dump is writing
  saveKind,        \* "none", "periodic" or "final"
  \* --- the environment
  down,            \* show pages whose load raises
  opsLeft,         \* menu operations still to be started
  sigLeft,         \* interrupt signals still to be delivered
  faultsLeft,      \* I/O faults (failing print or save) still to happen
  \* --- history
  dispatched,      \* this operation entered the dispatch stage
  mergeLog,        \* tasks whose result was merged, in merge order
  sinceFlush,      \* tasks handled since the last checkpoint save was started
  finalSaves,      \* final saves performed by this operation
  lastSaveOk,      \* outcome of the last save_checkpoint_safe
  prevRunFile      \* the file as the previous completed run_complete_scrape left it

procVars == <<mpc, op, should_stop, sigInstalled, hpc, print_lock, checkpoint_lock>>
memVars == <<showObj, epObj, all_shows, all_episodes, phase>>
execVars == <<num_workers, tasks, tpc, tidx, teps, tok, nsub, processed, tasks_completed>>
fileVars == <<file, saveBuf, saveKind>>
envVars == <<down, opsLeft, sigLeft, faultsLeft>>
histVars == <<dispatched, mergeLog, sinceFlush, finalSaves, lastSaveOk, prevRunFile>>
hvVars == <<procVars, memVars, execVars, fileVars, envVars, histVars>>

VARIABLES
  \* --- Part I: the rows a scraper process wrote and a reader's queries
  dbTvshowId,   \* slug -> tvshow_id under which the episodes were stored (NoId if none)
  lastQuery,    \* the analysis script's last query: [slug, tvshow_id], or NoQuery
  \* --- Part III: the gap analysis applied to two checkpoints
  anIn,         \* the two checkpoints
  anOut,        \* what was computed from them (NoOutput before)
  \* --- Part II: backup files
  backups       \* contents of the backup copies of CHECKPOINT_FILE

VARIABLES
  \* --- Part IV: the serial fetcher (imvbox_scraper.py, imvbox_scraper_v4.py)
  now,               \* time.time(), in ticks
  last_request_time, \* global last_request_time
  fpc,               \* fetch_url: "idle", "sleeping" or "requesting"
  wakeAt,            \* end of the running time.sleep
  reqStart,          \* when the latest session.get started (NoTime if none)
  prevStart,         \* when the session.get before it started (NoTime if none)
  nreq,              \* session.get calls made
  \* --- Part V: one gather of the async scraper (imvbox_scraper_async.py)
  aSite,             \* how the site answers (which item gets which outcome)
  apc,               \* per fetch_url task: "new", "waiting", "fetching", "done"
  ares,              \* per fetch_url task: its return value
  semValue,          \* the semaphore's counter
  waiters,           \* tasks waiting in semaphore.acquire, oldest first
  cached             \* rows of cached_movies

VARIABLES
  \* --- Part VI: the order-based dates of imvbox_scraper_v4.py
  dBase,             \* now, the base_time of this run (ms)
  dCards,            \* per list page: the number of movie cards on it
  dPage,             \* the page being processed
  dIndex,            \* item_index of the next card on it
  dRows              \* the rows stored so far: page, item_index, dateAdded

VARIABLES
  \* --- Part VII: fetch_paginated of rebuild_farsiland_db.py
  gTotal,            \* the endpoint: how many pages it has
  gHeader,           \* the endpoint: it sends X-WP-TotalPages
  gpc,               \* fetch_paginated: "request" or "returned"
  gPage,             \* page
  gAttempt,          \* attempt of "for attempt in range(MAX_RETRIES)"
  gItems,            \* all_items, as the pages they came from
  gReqs,             \* per page: session.get calls made for it
  gGaveUp            \* the function returned through "Giving up on page"

VARIABLES
  \* --- Part VIII: discover_catalog_from_website of the master scraper
  kListing,          \* the items the category pages list, in scan order
  kpc,               \* "scan", "done" (or "idle")
  kPos,              \* the next item of kListing
  kExistingUrls,     \* existing_urls
  discovered_shows,  \* discovered_shows
  kShows             \* checkpoint['shows']

VARIABLES
  \* --- Part IX: the SQLite database of farsiplex_scraper_dooplay.py
  db,                \* the tables
  dbItem,            \* the scraped movie_data or tvshow_data that is saved
  dbSaved,           \* how often it has been saved
  dbOnce             \* the tables as they were after its first save

lkVars == <<dbTvshowId, lastQuery>>
anVars == <<anIn, anOut>>
bkVars == <<backups>>
fxVars == <<now, last_request_time, fpc, wakeAt, reqStart, prevStart, nreq>>
asVars == <<aSite, apc, ares, semValue, waiters, cached>>
dtVars == <<dBase, dCards, dPage, dIndex, dRows>>
pgVars == <<gTotal, gHeader, gpc, gPage, gAttempt, gItems, gReqs, gGaveUp>>
kVars == <<kListing, kpc, kPos, kExistingUrls, discovered_shows, kShows>>
dbVars == <<db, dbItem, dbSaved, dbOnce>>

\* The variables of Parts I to V, and those of the later parts.
coreVars == <<idVars, lkVars, hvVars, anVars, bkVars, fxVars, asVars>>
toolVars == <<dtVars, pgVars, kVars, dbVars>>

\* What the steps of one part leave alone.
outsideMenu == <<idVars, lkVars, anVars, fxVars, asVars, toolVars>>
outsideIds == <<hvVars, anVars, bkVars, fxVars, asVars, toolVars>>
outsideHarvest == <<outsideMenu, bkVars>>
outsideAnalysis == <<idVars, lkVars, hvVars, bkVars, fxVars, asVars, toolVars>>
outsideFetch == <<idVars, lkVars, hvVars, anVars, bkVars, asVars, toolVars>>
outsideAsync == <<idVars, lkVars, hvVars, anVars, bkVars, fxVars, toolVars>>
outsideDates == <<coreVars, pgVars, kVars, dbVars>>
outsidePaginate == <<coreVars, dtVars, kVars, dbVars>>
outsideDiscovery == <<coreVars, dtVars, pgVars, dbVars>>
outsideDb == <<coreVars, dtVars, pgVars, kVars>>

vars == <<coreVars, toolVars>>

(***************************************************************************)
(* Part I.  Stable ID generation                                           *)
(***************************************************************************)

\* Bounds of the ID model.
MaxSeed == 1
MaxCalls == 2

\* 10 ** 8, the modulus of generate_stable_id.
IdModulus == 100000000

NoId == 0 - 1

\* Two processes: a scraper run and a later run (or a reader of its rows).
Procs == {1, 2}

\* Slugs of test_determinism's test cases.
Slugs == {"breaking-bad", "game-of-thrones", "the-last-of-us"}

\* hashlib.md5(slug.encode('utf-8')).hexdigest(), as its 32 hexadecimal digits.
\* MD5 reads nothing but the bytes of the slug; the digests are those of the
\* algorithm for the slugs above.
MD5HexDigest(slug) ==
  CASE slug = "breaking-bad" ->
       <<4,1,7,2,6,15,1,8,9,11,15,7,6,14,3,4,15,9,15,8,15,8,5,9,5,15,13,10,10,0,1,11>>
    [] slug = "game-of-thrones" ->
       <<1,2,11,1,11,5,13,9,12,8,7,8,6,13,14,5,9,7,10,9,4,7,15,12,15,3,14,3,13,10,8,10>>
    [] slug = "the-last-of-us" ->
       <<13,8,4,1,3,5,11,7,11,14,10,5,11,1,7,1,6,5,14,1,7,4,0,12,5,8,0,4,7,15,14,9>>

\* int(hexdigits, 16) % modulus, computed digit by digit (Horner), which keeps
\* every intermediate value below 16 * modulus.
RECURSIVE HexMod(_, _, _)
HexMod(digits, acc, modulus) ==
  IF digits = <<>> THEN acc
  ELSE HexMod(Tail(digits), (acc * 16 + Head(digits)) % modulus, modulus)

\* Python's built-in hash() of a str, reduced as the old code reduced it:
\* keyed by the per-process seed (PYTHONHASHSEED randomisation), so equal within
\* one process and different between processes.
SlugCode(slug) ==
  CASE slug = "breaking-bad" -> 1
    [] slug = "game-of-thrones" -> 2
    [] slug = "the-last-of-us" -> 3

PyHashId(env, slug) == (SlugCode(slug) * 1000003 + env.seed * 7919) % IdModulus

\* The ID as the code computed it before the fix noted in generate_stable_id's
\* docstring: the runtime's seeded hash instead of MD5.
generate_stable_id_RuntimeHash(env, slug) == PyHashId(env, slug)

\* FarsiPlexScraper.generate_stable_id(self, slug).  env is the environment of
\* the call (the process's hash seed and the number of earlier calls), which
\* the code does not read.
generate_stable_id(env, slug) == HexMod(MD5HexDigest(slug), 0, IdModulus)

Env(p) == [seed |-> procSeed[p], calls |-> procCalls[p]]

\* tvshow_id = hash(slug) % (10 ** 8) of analyze_missing_episodes.py.
analyze_tvshow_id(env, slug) == PyHashId(env, slug)

NoQuery == [slug |-> "", tvshow_id |-> NoId]

\* An empty database, no query made.
NoRows ==
  /\ dbTvshowId = [s \in Slugs |-> NoId]
  /\ lastQuery = NoQuery

IdInitVars ==
  /\ procSeed \in [Procs -> 0..MaxSeed]
  /\ procCalls = [p \in Procs |-> 0]
  /\ idTable = [p \in Procs |-> [s \in Slugs |-> NoId]]
  /\ returned = [s \in Slugs |-> {}]
  /\ NoRows

\* One call of generate_stable_id in process p.
ComputeId(p, slug) ==
  /\ procCalls[p] < MaxCalls
  /\ LET id == generate_stable_id(Env(p), slug) IN
       /\ idTable' = [idTable EXCEPT ![p][slug] = id]
       /\ returned' = [returned EXCEPT ![slug] = @ \cup {id}]
  /\ procCalls' = [procCalls EXCEPT ![p] = @ + 1]
  /\ UNCHANGED <<procSeed, lkVars, outsideIds>>

\* save_tvshow_to_db in scraper process p: the show and its episodes are
\* stored under tvshow_id = generate_stable_id(slug).
SaveTvShow(p, slug) ==
  /\ procCalls[p] < MaxCalls
  /\ dbTvshowId' = [dbTvshowId EXCEPT ![slug] = generate_stable_id(Env(p), slug)]
  /\ procCalls' = [procCalls EXCEPT ![p] = @ + 1]
  /\ UNCHANGED <<procSeed, idTable, returned, lastQuery, outsideIds>>

\* analyze_missing_episodes.py run as process p: for a show found in the
\* database it computes the tvshow_id and counts the episodes stored under it.
AnalyzeMissing(p, slug) ==
  /\ dbTvshowId[slug] # NoId
  /\ lastQuery' = [slug |-> slug, tvshow_id |-> analyze_tvshow_id(Env(p), slug)]
  /\ UNCHANGED <<idVars, dbTvshowId, outsideIds>>

\* Process p exits and a new process starts: a fresh hash seed, nothing kept
\* in memory.
RestartProcess(p, seed) ==
  /\ procCalls[p] > 0
  /\ procSeed[p] # seed
  /\ procSeed' = [procSeed EXCEPT ![p] = seed]
  /\ procCalls' = [procCalls EXCEPT ![p] = 0]
  /\ idTable' = [idTable EXCEPT ![p] = [s \in Slugs |-> NoId]]
  /\ UNCHANGED <<returned, lkVars, outsideIds>>

(***************************************************************************)
(* Part II.  The Namakadeh master scraper                                  *)
(***************************************************************************)

\* Bounds of the harvest model.
MaxWorkers == 2
MaxOps == 3
MaxSignals == 1
MaxFaults == 1
MaxDown == 1
BatchSize == 11

\* "if tasks_completed % 10 == 0" / "if total_verified % 10 == 0".
FlushEvery == 10
\* "(expected - actual) <= 20" in verify_series_completeness.
VerifyThreshold == 20

\* ---- values

\* The empty string as video_url.
NoVideo == <<>>
\* d.get('video_url') is truthy: the key is there and its value is not empty.
HasVideoUrl(d) == "video_url" \in DOMAIN d /\ d.video_url # NoVideo
\* The key 'view_count' is absent.
Absent == 0 - 1

\* A URL is a pair <<directory, last path segment>>.
LastSegment(url) == url[2]

\* new_show of discover_catalog_from_website: the id is the last path segment
\* of the URL.  total_episodes is the catalogue's stated count (0 when absent).
NewShow(url, type, total) ==
  [id |-> LastSegment(url), url |-> url, type |-> type, video_url |-> NoVideo,
   view_count |-> Absent, total_episodes |-> total]

\* The episode dict built by scrape_show_details and verify_and_scrape_series:
\* episode_id = f"{show['id']}_ep{idx}", an injective pairing of id and index.
NewEpisode(show, idx, episode_url, video_url) ==
  [id |-> <<show.id, idx>>, show_id |-> show.id, episode_number |-> idx,
   url |-> episode_url, video_url |-> video_url]

\* ---- the website (the source that is scraped; it does not change)

UrlSX1 == <<"/series/", <<"x", 0>>>>
UrlSX2 == <<"/anime/", <<"x", 0>>>>
UrlM == <<"/iran-1-movies/", <<"m", 0>>>>
UrlBatch(i) == <<"/foreign-movies/", <<"b", i>>>>

\* The URL of the k-th episode a series published.
EpUrl(showUrl, k) == <<showUrl, k>>

\* The "Views" number of a detail page.
SiteViews(url) == IF url = UrlSX2 THEN 5 ELSE 7

\* The <li> items of ul#gridMason2 on a series page, newest episode first.
SiteGrid(url) ==
  CASE url = UrlSX1 -> <<EpUrl(UrlSX1, 2), EpUrl(UrlSX1, 1)>>
    [] url = UrlSX2 -> <<EpUrl(UrlSX2, 1)>>
    [] OTHER -> <<>>

\* extract_video_url: the MP4 URL found on a page, or "" when the page has
\* none (or the extraction raised, which it catches).
extract_video_url(page_url, content_type) ==
  IF content_type = "movie"
  THEN IF page_url = UrlM THEN NoVideo ELSE <<"mp4", page_url>>
  ELSE IF page_url = EpUrl(UrlSX1, 1) THEN NoVideo ELSE <<"mp4", page_url>>

\* ---- the catalogue entries of the checkpoints considered

ShowSX1 == NewShow(UrlSX1, "series", 2)
ShowSX2 == NewShow(UrlSX2, "series", 1)
ShowM == NewShow(UrlM, "movie", 0)
ShowBatch(i) == NewShow(UrlBatch(i), "movie", 0)

\* What an earlier scrape of ShowSX1 recorded when its page listed only its
\* first episode.
PriorEpisodes == <<NewEpisode(ShowSX1, 1, EpUrl(UrlSX1, 1), NoVideo)>>

\* ---- sequences

Range(s) == {s[i] : i \in DOMAIN s}

RECURSIVE SelectIdx(_, _)
\* The indices of s (ascending) whose element is in the set keep.
SelectIdx(n, keep) ==
  IF n = 0 THEN <<>>
  ELSE IF n \in keep THEN Append(SelectIdx(n - 1, keep), n) ELSE SelectIdx(n - 1, keep)

\* The first of the positions hits ("for j, x in enumerate(...): if ...:
\* break"), or 0 when there is none.
FirstIn(hits) ==
  IF hits = {} THEN 0 ELSE CHOOSE i \in hits : \A j \in hits : i <= j

\* ---- analyze_checkpoint_status, on the lists of dicts of a checkpoint.
\* Results are lists of positions in shows / episodes (the dicts themselves in
\* the code).

\* eps_by_show[show_id]
EpsByShow(episodes, show_id) ==
  SelectIdx(Len(episodes), {i \in DOMAIN episodes : episodes[i].show_id = show_id})

MoviesMissingUrls(shows) ==
  SelectIdx(Len(shows), {i \in DOMAIN shows : shows[i].type = "movie" /\ ~HasVideoUrl(shows[i])})

\* Every show without episodes, movies too.
SeriesWithoutEpisodes_AnyType(shows, episodes) ==
  SelectIdx(Len(shows), {i \in DOMAIN shows : EpsByShow(episodes, shows[i].id) = <<>>})

SeriesWithoutEpisodes(shows, episodes) ==
  SelectIdx(Len(shows), {i \in DOMAIN shows :
     shows[i].type = "series" /\ EpsByShow(episodes, shows[i].id) = <<>>})

\* Only episodes whose video_url is there and empty.
EpisodesMissingUrls_EmptyOnly(episodes) ==
  SelectIdx(Len(episodes), {i \in DOMAIN episodes :
     "video_url" \in DOMAIN episodes[i] /\ episodes[i].video_url = NoVideo})

EpisodesMissingUrls(episodes) ==
  SelectIdx(Len(episodes), {i \in DOMAIN episodes : ~HasVideoUrl(episodes[i])})

SeriesWithMissingUrls(shows, episodes) ==
  SelectIdx(Len(shows), {i \in DOMAIN shows :
     /\ shows[i].type = "series"
     /\ \E j \in DOMAIN episodes :
          episodes[j].show_id = shows[i].id /\ ~HasVideoUrl(episodes[j])})

\* Candidates chosen by the size of the shortfall alone.
SeriesToVerify_AnyShortfall(shows, episodes) ==
  SelectIdx(Len(shows), {i \in DOMAIN shows :
     /\ shows[i].type = "series"
     /\ LET actual == Len(EpsByShow(episodes, shows[i].id))
            expected == shows[i].total_episodes
        IN actual > 0 /\ actual < expected})

\* series_to_verify of verify_series_completeness.
SeriesToVerify(shows, episodes) ==
  SelectIdx(Len(shows), {i \in DOMAIN shows :
     /\ shows[i].type = "series"
     /\ LET actual == Len(EpsByShow(episodes, shows[i].id))
            expected == shows[i].total_episodes
        IN actual > 0 /\ actual < expected /\ (expected - actual) <= VerifyThreshold})

\* ---- tasks.  show is a reference into showObj, eps a list of references
\* into epObj (the existing episodes handed to the worker).

ScrapeTask(i) == [kind |-> "scrape", show |-> i, eps |-> <<>>]
ExtractTask(i, epRefs) == [kind |-> "extract", show |-> i, eps |-> epRefs]
VerifyTask(i, epRefs) == [kind |-> "verify", show |-> i, eps |-> epRefs]

\* References of the dicts of a freshly loaded checkpoint.
LoadedEpRef(i) == <<0, i>>
LoadedEpRefs(idxs) == [k \in DOMAIN idxs |-> LoadedEpRef(idxs[k])]

\* tasks_to_scrape followed by status['series_with_missing_urls'].
RunTasks(shows, episodes) ==
  LET scrape == MoviesMissingUrls(shows) \o SeriesWithoutEpisodes(shows, episodes)
      extract == SeriesWithMissingUrls(shows, episodes)
  IN [k \in DOMAIN scrape |-> ScrapeTask(scrape[k])]
     \o [k \in DOMAIN extract |->
           ExtractTask(extract[k], LoadedEpRefs(EpsByShow(episodes, shows[extract[k]].id)))]

VerifyTasks(shows, episodes) ==
  LET v == SeriesToVerify(shows, episodes)
  IN [k \in DOMAIN v |-> VerifyTask(v[k], LoadedEpRefs(EpsByShow(episodes, shows[v[k]].id)))]

\* A run that skips a checkpoint already marked complete.
TasksOfCheckpoint_PhaseGated(checkpoint) ==
  IF checkpoint.phase = "complete" THEN <<>>
  ELSE RunTasks(checkpoint.shows, checkpoint.episodes)

\* The tasks run_complete_scrape dispatches for a loaded checkpoint.
TasksOfCheckpoint(checkpoint) == RunTasks(checkpoint.shows, checkpoint.episodes)

\* ---- the checkpoint file

\* json.dump of the checkpoint: the dicts behind the references.
Snapshot(shObj, eObj, shs, eps, ph) ==
  [valid |-> TRUE,
   shows |-> [i \in DOMAIN shs |-> shObj[shs[i]]],
   episodes |-> [i \in DOMAIN eps |-> eObj[eps[i]]],
   phase |-> ph]

\* The file after open(CHECKPOINT_FILE, 'w') and before json.dump finished.
Truncated == [valid |-> FALSE, shows |-> <<>>, episodes |-> <<>>, phase |-> "none"]

CheckpointOf(shows, episodes) ==
  [valid |-> TRUE, shows |-> shows, episodes |-> episodes, phase |-> "detail_scraping"]

RECURSIVE SubSeqs(_)
\* All subsequences of s.
SubSeqs(s) ==
  IF s = <<>> THEN {<<>>}
  ELSE LET rest == SubSeqs(Tail(s)) IN rest \cup {<<Head(s)>> \o r : r \in rest}

\* What discover_catalog_from_website finds on the site: two series whose
\* URLs end in the same segment, and a movie.
Catalogue == <<ShowSX1, ShowSX2, ShowM>>

\* The checkpoints a harvest starts from: any proper part of the catalogue,
\* without episodes or with what an earlier scrape of ShowSX1 recorded.
InitialCheckpoints ==
  {CheckpointOf(shows, <<>>) : shows \in SubSeqs(Catalogue) \ {<<>>, Catalogue}}
  \cup {CheckpointOf(shows, PriorEpisodes) :
          shows \in {s \in SubSeqs(Catalogue) \ {Catalogue} : ShowSX1 \in Range(s)}}

\* A catalogue of BatchSize movies, none scraped yet.
BatchCheckpoint == CheckpointOf([i \in 1..BatchSize |-> ShowBatch(i)], <<>>)

\* ---- merging a result into the accumulator (run_complete_scrape)

\* Position of the first dict of eps whose id is id, or 0.
FirstWithId(eps, eObj, id) == FirstIn({i \in DOMAIN eps : eObj[eps[i]].id = id})

\* One new_ep of "Add episodes (with deduplication)": appended when its id is
\* new, otherwise it replaces the first dict with that id.
UpsertEpisode(eps, eObj, ref) ==
  LET j == FirstWithId(eps, eObj, eObj[ref].id)
  IN IF j = 0 THEN Append(eps, ref) ELSE [eps EXCEPT ![j] = ref]

RECURSIVE MergeScrapedEpisodes(_, _, _)
\* for new_ep in result['episodes']: upsert.
MergeScrapedEpisodes(eps, eObj, refs) ==
  IF refs = <<>> THEN eps
  ELSE MergeScrapedEpisodes(UpsertEpisode(eps, eObj, Head(refs)), eObj, Tail(refs))

\* One updated_ep of mode 'extract': replaces the first dict with its id, if any.
ReplaceEpisode(eps, eObj, ref) ==
  LET j == FirstWithId(eps, eObj, eObj[ref].id)
  IN IF j = 0 THEN eps ELSE [eps EXCEPT ![j] = ref]

RECURSIVE MergeExtractedEpisodes(_, _, _)
MergeExtractedEpisodes(eps, eObj, refs) ==
  IF refs = <<>> THEN eps
  ELSE MergeExtractedEpisodes(ReplaceEpisode(eps, eObj, Head(refs)), eObj, Tail(refs))

\* "Update show": the first show with the task's identifier becomes result['show'].
UpdateShow(shs, shObj, ref) ==
  LET j == FirstIn({i \in DOMAIN shs : shObj[shs[i]].id = shObj[ref].id})
  IN IF j = 0 THEN shs ELSE [shs EXCEPT ![j] = ref]

\* episodes.extend(result['new_episodes']) of verify_series_completeness.
ExtendEpisodes(eps, refs) == eps \o refs

\* ---- initial states

NoFile == Truncated

EmptyMemory ==
  /\ showObj = <<>> /\ epObj = <<>> /\ all_shows = <<>> /\ all_episodes = <<>>
  /\ phase = "none"

EmptyExecutor ==
  /\ num_workers = 0 /\ tasks = <<>> /\ tpc = <<>> /\ tidx = <<>> /\ teps = <<>>
  /\ tok = <<>> /\ nsub = 1 /\ processed = {} /\ tasks_completed = 0

HarvestInitVars(checkpoints, ops, sigs, faults, maxDown) ==
  /\ mpc = "menu" /\ op = "none" /\ should_stop = FALSE /\ sigInstalled = FALSE
  /\ hpc = "idle" /\ print_lock = "free" /\ checkpoint_lock = "free"
  /\ EmptyMemory
  /\ EmptyExecutor
  /\ file \in checkpoints
  /\ saveBuf = NoFile /\ saveKind = "none"
  /\ down \in {d \in SUBSET {file.shows[i].url : i \in DOMAIN file.shows} :
                 Cardinality(d) <= maxDown}
  /\ opsLeft = ops /\ sigLeft = sigs /\ faultsLeft = faults
  /\ dispatched = FALSE /\ mergeLog = <<>> /\ sinceFlush = 0 /\ finalSaves = 0
  /\ lastSaveOk = TRUE /\ prevRunFile = NoFile
  /\ backups = {}

\* The variables of the part a specification does not exercise.
IdIdle ==
  /\ procSeed = [p \in Procs |-> 0]
  /\ procCalls = [p \in Procs |-> 0]
  /\ idTable = [p \in Procs |-> [s \in Slugs |-> NoId]]
  /\ returned = [s \in Slugs |-> {}]
  /\ NoRows

HarvestIdle == HarvestInitVars({CheckpointOf(<<ShowM>>, <<>>)}, 0, 0, 0, 0)

\* ---- the main thread

\* load_checkpoint: json.load builds fresh dicts.
LoadMemory ==
  /\ showObj' = file.shows
  /\ all_shows' = [i \in DOMAIN file.shows |-> i]
  /\ epObj' = [r \in {LoadedEpRef(i) : i \in DOMAIN file.episodes} |-> file.episodes[r[2]]]
  /\ all_episodes' = [i \in DOMAIN file.episodes |-> LoadedEpRef(i)]
  /\ phase' = file.phase

StartExecutor(ts, nw) ==
  /\ num_workers' = nw
  /\ tasks' = ts
  /\ tpc' = [t \in DOMAIN ts |-> "new"]
  /\ tidx' = [t \in DOMAIN ts |-> 0]
  /\ teps' = [t \in DOMAIN ts |-> <<>>]
  /\ tok' = [t \in DOMAIN ts |-> FALSE]
  /\ nsub' = 1 /\ processed' = {} /\ tasks_completed' = 0
  /\ dispatched' = TRUE /\ mergeLog' = <<>> /\ sinceFlush' = 0 /\ finalSaves' = 0

\* Menu option 3 (or 5): load_checkpoint and run_complete_scrape up to the
\* thread pool (lines 806-847).  nw is the number of workers typed in, confirm
\* the answer to "Start scraping ...?".
M_RunStart(nw, confirm) ==
  /\ mpc = "menu" /\ hpc = "idle" /\ opsLeft > 0 /\ file.valid
  /\ opsLeft' = opsLeft - 1
  /\ sigInstalled' = TRUE
  /\ LET ts == TasksOfCheckpoint(file) IN
       IF ts = <<>>
       THEN \* "Nothing to scrape! All complete."
            /\ mpc' = "returned" /\ op' = "run" /\ dispatched' = FALSE
            /\ UNCHANGED <<memVars, execVars, mergeLog, sinceFlush, finalSaves>>
       ELSE IF ~confirm
       THEN /\ UNCHANGED <<mpc, op, memVars, execVars, dispatched, mergeLog, sinceFlush,
                           finalSaves>>
       ELSE /\ mpc' = "submit" /\ op' = "run"
            /\ LoadMemory
            /\ StartExecutor(ts, nw)
  /\ UNCHANGED <<should_stop, hpc, print_lock, checkpoint_lock, fileVars, down, sigLeft,
                 faultsLeft, lastSaveOk, prevRunFile, outsideHarvest>>

\* Menu option 4: load_checkpoint and verify_series_completeness up to the
\* thread pool (lines 443-485).  It does not install the signal handler.
M_VerifyStart(nw, confirm) ==
  /\ mpc = "menu" /\ hpc = "idle" /\ opsLeft > 0 /\ file.valid
  /\ opsLeft' = opsLeft - 1
  /\ LET ts == VerifyTasks(file.shows, file.episodes) IN
       IF ts = <<>> \/ ~confirm
       THEN \* "No series need verification!", or not confirmed
            /\ UNCHANGED <<mpc, op, memVars, execVars, dispatched, mergeLog, sinceFlush,
                           finalSaves>>
       ELSE /\ mpc' = "submit" /\ op' = "verify"
            /\ LoadMemory
            /\ StartExecutor(ts, nw)
  /\ UNCHANGED <<should_stop, sigInstalled, hpc, print_lock, checkpoint_lock, fileVars, down,
                 sigLeft, faultsLeft, lastSaveOk, prevRunFile, outsideHarvest>>

\* main(): load_checkpoint on a file that json.load cannot parse raises, and
\* nothing catches it.
M_LoadCrash ==
  /\ mpc = "menu" /\ hpc = "idle" /\ opsLeft > 0 /\ ~file.valid
  /\ opsLeft' = opsLeft - 1
  /\ mpc' = "crashed"
  /\ UNCHANGED <<op, should_stop, sigInstalled, hpc, print_lock, checkpoint_lock, memVars,
                 execVars, fileVars, down, sigLeft, faultsLeft, histVars, outsideHarvest>>

\* One iteration of the submit loops (lines 854-880): break on should_stop,
\* otherwise setup_browser and executor.submit.
M_Submit ==
  /\ mpc = "submit" /\ hpc = "idle"
  /\ IF should_stop \/ nsub > Len(tasks)
     THEN /\ mpc' = "collect"
          /\ UNCHANGED <<tpc, nsub>>
     ELSE /\ tpc' = [tpc EXCEPT ![nsub] = "queued"]
          /\ nsub' = nsub + 1
          /\ UNCHANGED mpc
  /\ UNCHANGED <<op, should_stop, sigInstalled, hpc, print_lock, checkpoint_lock, memVars,
                 num_workers, tasks, tidx, teps, tok, processed, tasks_completed, fileVars,
                 envVars, histVars, outsideHarvest>>

\* ---- the worker threads

Running == {t \in DOMAIN tpc : tpc[t] \in {"get", "video", "loop"}}

TaskShow(t) == showObj[tasks[t].show]

\* A write to a show dict while json.dump may be walking the checkpoint: the
\* dump has either passed that dict already or not yet.
RaceOnShow(ref, rec) ==
  IF mpc = "saving"
  THEN {saveBuf,
        [saveBuf EXCEPT !.shows = [i \in DOMAIN @ |-> IF all_shows[i] = ref THEN rec ELSE @[i]]]}
  ELSE {saveBuf}

RaceOnEpisode(ref, rec) ==
  IF mpc = "saving"
  THEN {saveBuf,
        [saveBuf EXCEPT !.episodes =
           [i \in DOMAIN @ |-> IF all_episodes[i] = ref THEN rec ELSE @[i]]]}
  ELSE {saveBuf}

Finish(t, success) ==
  /\ tpc' = [tpc EXCEPT ![t] = "done"]
  /\ tok' = [tok EXCEPT ![t] = success]

\* A pool thread takes the oldest queued work item.
W_Start(t) ==
  /\ t \in DOMAIN tpc /\ tpc[t] = "queued"
  /\ \A u \in 1..(t - 1) : tpc[u] # "queued"
  /\ Cardinality(Running) < num_workers
  /\ tpc' = [tpc EXCEPT ![t] = IF tasks[t].kind = "extract" THEN "loop" ELSE "get"]
  /\ tidx' = [tidx EXCEPT ![t] = 1]
  /\ UNCHANGED <<procVars, memVars, num_workers, tasks, teps, tok, nsub, processed,
                 tasks_completed, fileVars, envVars, histVars, outsideHarvest>>

\* scrape_show_details, lines 190-215 and 225-228: load the page (which may
\* raise: the except branch returns success False), store the view count in
\* the show dict, find the episode grid.
W_Get(t) ==
  /\ t \in DOMAIN tpc /\ tpc[t] = "get" /\ tasks[t].kind = "scrape"
  /\ LET ref == tasks[t].show
         show == showObj[ref]
         rec == [show EXCEPT !.view_count = SiteViews(show.url)]
     IN IF show.url \in down
        THEN /\ Finish(t, FALSE)
             /\ UNCHANGED <<showObj, saveBuf>>
        ELSE /\ showObj' = [showObj EXCEPT ![ref] = rec]
             /\ saveBuf' \in RaceOnShow(ref, rec)
             /\ IF show.type = "movie"
                THEN tpc' = [tpc EXCEPT ![t] = "video"] /\ UNCHANGED tok
                ELSE IF SiteGrid(show.url) = <<>>
                THEN Finish(t, TRUE)
                ELSE tpc' = [tpc EXCEPT ![t] = "loop"] /\ UNCHANGED tok
  /\ UNCHANGED <<procVars, epObj, all_shows, all_episodes, phase, num_workers, tasks, tidx,
                 teps, nsub, processed, tasks_completed, file, saveKind, envVars, histVars,
                 outsideHarvest>>

\* scrape_show_details, lines 218-220 and the return: a movie's video URL is
\* extracted and stored in the show dict.
W_Video(t) ==
  /\ t \in DOMAIN tpc /\ tpc[t] = "video"
  /\ LET ref == tasks[t].show
         show == showObj[ref]
         rec == [show EXCEPT !.video_url = extract_video_url(show.url, "movie")]
     IN /\ showObj' = [showObj EXCEPT ![ref] = rec]
        /\ saveBuf' \in RaceOnShow(ref, rec)
  /\ Finish(t, TRUE)
  /\ UNCHANGED <<procVars, epObj, all_shows, all_episodes, phase, num_workers, tasks, tidx,
                 teps, nsub, processed, tasks_completed, file, saveKind, envVars, histVars,
                 outsideHarvest>>

\* One iteration of scrape_show_details' episode loop (lines 230-258): break
\* on should_stop, otherwise build the episode dict and print the progress
\* line (progress_print takes print_lock).  After the last item it returns.
W_ScrapeEpisode(t) ==
  /\ t \in DOMAIN tpc /\ tpc[t] = "loop" /\ tasks[t].kind = "scrape"
  /\ LET show == TaskShow(t)
         grid == SiteGrid(show.url)
         idx == tidx[t]
         ref == <<t, idx>>
     IN IF should_stop
        THEN /\ Finish(t, TRUE)
             /\ UNCHANGED <<epObj, teps, tidx>>
        ELSE /\ print_lock = "free"
             /\ epObj' = (ref :> NewEpisode(show, idx, grid[idx],
                                            extract_video_url(grid[idx], "series"))) @@ epObj
             /\ teps' = [teps EXCEPT ![t] = Append(@, ref)]
             /\ IF idx = Len(grid)
                THEN Finish(t, TRUE) /\ UNCHANGED tidx
                ELSE tidx' = [tidx EXCEPT ![t] = idx + 1] /\ UNCHANGED <<tpc, tok>>
  /\ UNCHANGED <<procVars, showObj, all_shows, all_episodes, phase, num_workers, tasks, nsub,
                 processed, tasks_completed, fileVars, envVars, histVars, outsideHarvest>>

\* One iteration of extract_missing_urls_for_show's loop (lines 296-311):
\* break on should_stop; an episode without video URL gets one written into
\* its dict, the very dict the checkpoint holds.  After the last it returns.
W_ExtractEpisode(t) ==
  /\ t \in DOMAIN tpc /\ tpc[t] = "loop" /\ tasks[t].kind = "extract"
  /\ LET idx == tidx[t]
         ref == tasks[t].eps[idx]
         ep == epObj[ref]
         rec == [ep EXCEPT !.video_url = extract_video_url(ep.url, "series")]
     IN IF should_stop
        THEN /\ Finish(t, TRUE)
             /\ UNCHANGED <<epObj, teps, tidx, saveBuf>>
        ELSE /\ IF ~HasVideoUrl(ep)
                THEN /\ print_lock = "free"
                     /\ epObj' = [epObj EXCEPT ![ref] = rec]
                     /\ saveBuf' \in RaceOnEpisode(ref, rec)
                ELSE UNCHANGED <<epObj, saveBuf>>
             /\ teps' = [teps EXCEPT ![t] = Append(@, ref)]
             /\ IF idx = Len(tasks[t].eps)
                THEN Finish(t, TRUE) /\ UNCHANGED tidx
                ELSE tidx' = [tidx EXCEPT ![t] = idx + 1] /\ UNCHANGED <<tpc, tok>>
  /\ UNCHANGED <<procVars, showObj, all_shows, all_episodes, phase, num_workers, tasks, nsub,
                 processed, tasks_completed, file, saveKind, envVars, histVars, outsideHarvest>>

\* verify_and_scrape_series, lines 541-578: load the page, compare the number
\* of listed episodes with the number already scraped.
W_VerifyGet(t) ==
  /\ t \in DOMAIN tpc /\ tpc[t] = "get" /\ tasks[t].kind = "verify"
  /\ LET show == TaskShow(t)
         grid == SiteGrid(show.url)
     IN IF show.url \in down \/ grid = <<>>
        THEN Finish(t, FALSE)
        ELSE IF Len(grid) <= Len(tasks[t].eps)
        THEN Finish(t, TRUE)
        ELSE tpc' = [tpc EXCEPT ![t] = "loop"] /\ UNCHANGED tok
  /\ UNCHANGED <<procVars, memVars, num_workers, tasks, tidx, teps, nsub, processed,
                 tasks_completed, fileVars, envVars, histVars, outsideHarvest>>

\* One iteration of verify_and_scrape_series' loop (lines 580-604): break on
\* should_stop, skip an episode whose URL is already known, otherwise build a
\* new episode dict whose id is made of the position in today's listing.
W_VerifyEpisode(t) ==
  /\ t \in DOMAIN tpc /\ tpc[t] = "loop" /\ tasks[t].kind = "verify"
  /\ LET show == TaskShow(t)
         grid == SiteGrid(show.url)
         idx == tidx[t]
         ref == <<t, idx>>
         existing_urls == {epObj[e].url : e \in Range(tasks[t].eps)}
     IN IF should_stop
        THEN /\ Finish(t, TRUE)
             /\ UNCHANGED <<epObj, teps, tidx>>
        ELSE /\ IF grid[idx] \in existing_urls
                THEN UNCHANGED <<epObj, teps>>
                ELSE /\ epObj' = (ref :> NewEpisode(show, idx, grid[idx],
                                                    extract_video_url(grid[idx], "series")))
                                 @@ epObj
                     /\ teps' = [teps EXCEPT ![t] = Append(@, ref)]
             /\ IF idx = Len(grid)
                THEN Finish(t, TRUE) /\ UNCHANGED tidx
                ELSE tidx' = [tidx EXCEPT ![t] = idx + 1] /\ UNCHANGED <<tpc, tok>>
  /\ UNCHANGED <<procVars, showObj, all_shows, all_episodes, phase, num_workers, tasks, nsub,
                 processed, tasks_completed, fileVars, envVars, histVars, outsideHarvest>>

\* ---- the result loop

\* The merge of a successful result under checkpoint_lock (lines 892-923).
MergeRunResult(t) ==
  IF tasks[t].kind = "extract"
  THEN /\ all_episodes' = MergeExtractedEpisodes(all_episodes, epObj, teps[t])
       /\ UNCHANGED all_shows
  ELSE /\ all_shows' = UpdateShow(all_shows, showObj, tasks[t].show)
       /\ all_episodes' = MergeScrapedEpisodes(all_episodes, epObj, teps[t])

\* as_completed yields the future of task t; the loop body up to its
\* progress_print (lines 883-932, 502-521), which it enters holding
\* print_lock (and, for a merged result of run_complete_scrape,
\* checkpoint_lock).
M_Collect(t) ==
  /\ mpc = "collect" /\ hpc = "idle"
  /\ t \in DOMAIN tpc /\ tpc[t] = "done" /\ t \notin processed
  /\ processed' = processed \cup {t}
  /\ tasks_completed' = tasks_completed + 1
  /\ sinceFlush' = sinceFlush + 1
  /\ IF op = "run"
     THEN IF tok[t]
          THEN /\ MergeRunResult(t)
               /\ mergeLog' = Append(mergeLog, t)
               /\ checkpoint_lock' = "main"
          ELSE UNCHANGED <<all_shows, all_episodes, mergeLog, checkpoint_lock>>
     ELSE IF tok[t] /\ teps[t] # <<>>
          THEN /\ all_episodes' = ExtendEpisodes(all_episodes, teps[t])
               /\ mergeLog' = Append(mergeLog, t)
               /\ UNCHANGED <<all_shows, checkpoint_lock>>
          ELSE UNCHANGED <<all_shows, all_episodes, mergeLog, checkpoint_lock>>
  /\ print_lock' = "main"
  /\ mpc' = "printing"
  /\ UNCHANGED <<op, should_stop, sigInstalled, hpc, showObj, epObj, phase, num_workers, tasks,
                 tpc, tidx, teps, tok, nsub, fileVars, envVars, dispatched, finalSaves,
                 lastSaveOk, prevRunFile, outsideHarvest>>

\* save_checkpoint_safe up to the running json.dump: checkpoint_lock is
\* taken and open(..., 'w') has emptied the file.
BeginSave(kind, ph) ==
  /\ checkpoint_lock' = "main"
  /\ file' = Truncated
  /\ saveBuf' = Snapshot(showObj, epObj, all_shows, all_episodes, ph)
  /\ saveKind' = kind
  /\ sinceFlush' = 0
  /\ mpc' = "saving"

\* The progress_print of the loop body ends and the rest of the iteration
\* runs.  Normally the locks are released and, every FlushEvery-th count, the
\* periodic save starts (lines 934-938, 523-525).  If the print raised, the
\* except branch runs instead (lines 947-949: the counter is bumped again; 527:
\* nothing is counted) and the iteration is over.
M_Printed(raised) ==
  /\ mpc = "printing" /\ hpc = "idle"
  /\ print_lock' = "free"
  /\ IF raised
     THEN /\ faultsLeft > 0
          /\ faultsLeft' = faultsLeft - 1
          /\ tasks_completed' = IF op = "run" THEN tasks_completed + 1 ELSE tasks_completed
          /\ checkpoint_lock' = "free"
          /\ mpc' = "collect"
          /\ UNCHANGED <<fileVars, sinceFlush>>
     ELSE /\ UNCHANGED <<faultsLeft, tasks_completed>>
          /\ IF tasks_completed % FlushEvery = 0
             THEN BeginSave("periodic", phase)
             ELSE /\ checkpoint_lock' = "free"
                  /\ mpc' = "collect"
                  /\ UNCHANGED <<fileVars, sinceFlush>>
  /\ UNCHANGED <<op, should_stop, sigInstalled, hpc, memVars, num_workers, tasks, tpc, tidx,
                 teps, tok, nsub, processed, down, opsLeft, sigLeft, dispatched, mergeLog,
                 finalSaves, lastSaveOk, prevRunFile, outsideHarvest>>

\* A run_complete_scrape that would return at once after an interrupt,
\* without the final save.
M_FinalSaveBegin_SkipOnStop ==
  /\ mpc = "collect" /\ hpc = "idle"
  /\ processed = {t \in DOMAIN tpc : tpc[t] # "new"}
  /\ IF should_stop
     THEN /\ mpc' = "returned"
          /\ UNCHANGED <<phase, checkpoint_lock, fileVars, sinceFlush>>
     ELSE /\ phase' = IF op = "run" THEN "complete" ELSE phase
          /\ BeginSave("final", phase')
  /\ UNCHANGED <<op, should_stop, sigInstalled, hpc, print_lock, showObj, epObj, all_shows,
                 all_episodes, execVars, envVars, dispatched, mergeLog, finalSaves, lastSaveOk,
                 prevRunFile, outsideHarvest>>

\* The result loop is over (every submitted future was yielded) and the pool
\* has shut down: the final save starts (lines 954-958, 530-531).
M_FinalSaveBegin ==
  /\ mpc = "collect" /\ hpc = "idle"
  /\ processed = {t \in DOMAIN tpc : tpc[t] # "new"}
  /\ phase' = IF op = "run" THEN "complete" ELSE phase
  /\ BeginSave("final", phase')
  /\ UNCHANGED <<op, should_stop, sigInstalled, hpc, print_lock, showObj, epObj, all_shows,
                 all_episodes, execVars, envVars, dispatched, mergeLog, finalSaves, lastSaveOk,
                 prevRunFile, outsideHarvest>>

\* A save_checkpoint_safe without its except clause: a failing json.dump
\* propagates to the caller, which dies of it.
M_SaveEnd_Propagate(ok) ==
  /\ mpc = "saving" /\ hpc = "idle"
  /\ IF ok
     THEN file' = saveBuf /\ lastSaveOk' = TRUE /\ UNCHANGED faultsLeft
     ELSE faultsLeft > 0 /\ faultsLeft' = faultsLeft - 1 /\ UNCHANGED <<file, lastSaveOk>>
  /\ checkpoint_lock' = "free"
  /\ saveKind' = "none"
  /\ saveBuf' = NoFile
  /\ IF ~ok
     THEN mpc' = "crashed" /\ UNCHANGED finalSaves
     ELSE IF saveKind = "periodic"
     THEN mpc' = "collect" /\ UNCHANGED finalSaves
     ELSE IF saveKind = "maintenance"
     THEN mpc' = "returned" /\ UNCHANGED finalSaves
     ELSE /\ finalSaves' = finalSaves + 1
          /\ mpc' = IF op = "run" /\ all_episodes = <<>> THEN "crashed" ELSE "returned"
  /\ UNCHANGED <<op, should_stop, sigInstalled, hpc, print_lock, memVars, execVars, down,
                 opsLeft, sigLeft, dispatched, mergeLog, sinceFlush, prevRunFile, outsideHarvest>>

\* json.dump ends: with the checkpoint written (True), or with an exception
\* that leaves the file as far as it got (False).  After the final save the
\* function prints its statistics and returns; run_complete_scrape divides by
\* len(all_episodes) there (line 970).  reset_checkpoint_phase and
\* clean_duplicates print a line and return.
M_SaveEnd(ok) ==
  /\ mpc = "saving" /\ hpc = "idle"
  /\ IF ok
     THEN file' = saveBuf /\ UNCHANGED faultsLeft
     ELSE faultsLeft > 0 /\ faultsLeft' = faultsLeft - 1 /\ UNCHANGED file
  /\ lastSaveOk' = ok
  /\ checkpoint_lock' = "free"
  /\ saveKind' = "none"
  /\ saveBuf' = NoFile
  /\ IF saveKind = "periodic"
     THEN mpc' = "collect" /\ UNCHANGED finalSaves
     ELSE IF saveKind = "maintenance"
     THEN mpc' = "returned" /\ UNCHANGED finalSaves
     ELSE /\ finalSaves' = finalSaves + 1
          /\ mpc' = IF op = "run" /\ all_episodes = <<>> THEN "crashed" ELSE "returned"
  /\ UNCHANGED <<op, should_stop, sigInstalled, hpc, print_lock, memVars, execVars, down,
                 opsLeft, sigLeft, dispatched, mergeLog, sinceFlush, prevRunFile, outsideHarvest>>

\* What the next run is compared with: the file a run_complete_scrape that
\* ran to completion (no interrupt, file written) has just left.
CompletedRunFile ==
  IF op = "run" /\ ~should_stop /\ file.valid /\ hpc = "idle" THEN file ELSE NoFile

ClearMemory ==
  /\ showObj' = <<>> /\ epObj' = <<>> /\ all_shows' = <<>> /\ all_episodes' = <<>>
  /\ phase' = "none"
  /\ num_workers' = 0 /\ tasks' = <<>> /\ tpc' = <<>> /\ tidx' = <<>> /\ teps' = <<>>
  /\ tok' = <<>> /\ nsub' = 1 /\ processed' = {} /\ tasks_completed' = 0
  /\ dispatched' = FALSE /\ mergeLog' = <<>> /\ sinceFlush' = 0 /\ finalSaves' = 0

\* The operation returns to main()'s menu loop.
M_Return ==
  /\ mpc = "returned" /\ hpc = "idle"
  /\ mpc' = "menu" /\ op' = "none"
  /\ prevRunFile' = CompletedRunFile
  /\ ClearMemory
  /\ UNCHANGED <<should_stop, sigInstalled, hpc, print_lock, checkpoint_lock, fileVars, envVars,
                 lastSaveOk, outsideHarvest>>

\* The process has died of an uncaught exception; the script is started again.
Restart ==
  /\ mpc = "crashed"
  /\ mpc' = "menu" /\ op' = "none"
  /\ should_stop' = FALSE /\ sigInstalled' = FALSE /\ hpc' = "idle"
  /\ print_lock' = "free" /\ checkpoint_lock' = "free"
  /\ prevRunFile' = CompletedRunFile
  /\ ClearMemory
  /\ UNCHANGED <<fileVars, envVars, lastSaveOk, outsideHarvest>>

\* ---- the maintenance operations of the menu

\* create_backup: shutil.copy of CHECKPOINT_FILE to a new timestamped file.
create_backup == backups' = backups \cup {file}

\* save_checkpoint_safe(checkpoint) of a maintenance operation, up to the
\* running json.dump.
BeginMaintenanceSave(checkpoint) ==
  /\ checkpoint_lock' = "main"
  /\ file' = Truncated
  /\ saveBuf' = checkpoint
  /\ saveKind' = "maintenance"
  /\ mpc' = "saving"

\* Menu option 7, reset_checkpoint_phase: load_checkpoint, the answer to
\* "Set phase to (1/2)", and the save of the checkpoint with the new phase.
M_ResetPhase(choice) ==
  /\ mpc = "menu" /\ hpc = "idle" /\ opsLeft > 0 /\ file.valid
  /\ opsLeft' = opsLeft - 1
  /\ IF choice = "1"
     THEN BeginMaintenanceSave([file EXCEPT !.phase = "detail_scraping"]) /\ op' = "reset"
     ELSE IF choice = "2"
     THEN BeginMaintenanceSave([file EXCEPT !.phase = "complete"]) /\ op' = "reset"
     ELSE UNCHANGED <<mpc, op, checkpoint_lock, fileVars>>
  /\ UNCHANGED backups
  /\ UNCHANGED <<should_stop, sigInstalled, hpc, print_lock, memVars, execVars, down, sigLeft,
                 faultsLeft, histVars, outsideMenu>>

\* Position of the last dict of episodes with the id of the i-th.
LastWithId(episodes, i) ==
  CHOOSE j \in DOMAIN episodes :
    /\ episodes[j].id = episodes[i].id
    /\ \A k \in DOMAIN episodes : episodes[k].id = episodes[i].id => k <= j

\* list(seen_ids.values()) of clean_duplicates: one dict per id, in the order
\* in which the ids first occur, each the last dict with that id.
UniqueEpisodes(episodes) ==
  LET firsts == SelectIdx(Len(episodes), {i \in DOMAIN episodes :
                   \A j \in 1..(i - 1) : episodes[j].id # episodes[i].id})
  IN [k \in DOMAIN firsts |-> episodes[LastWithId(episodes, firsts[k])]]

\* Menu option 8, clean_duplicates: load_checkpoint, the backup, and, when
\* there are duplicates and the user confirms, the save of the checkpoint
\* with the unique episodes.
M_CleanDuplicates(confirm) ==
  /\ mpc = "menu" /\ hpc = "idle" /\ opsLeft > 0 /\ file.valid
  /\ opsLeft' = opsLeft - 1
  /\ create_backup
  /\ LET unique_episodes == UniqueEpisodes(file.episodes) IN
       IF Len(file.episodes) - Len(unique_episodes) > 0 /\ confirm
       THEN BeginMaintenanceSave([file EXCEPT !.episodes = unique_episodes]) /\ op' = "clean"
       ELSE UNCHANGED <<mpc, op, checkpoint_lock, fileVars>>
  /\ UNCHANGED <<should_stop, sigInstalled, hpc, print_lock, memVars, execVars, down, sigLeft,
                 faultsLeft, histVars, outsideMenu>>

\* ---- the interrupt

\* SIGINT is delivered: Python runs signal_handler on the main thread, between
\* two of its bytecodes, wherever it is.
Interrupt ==
  /\ sigInstalled /\ hpc = "idle" /\ sigLeft > 0 /\ mpc # "crashed"
  /\ hpc' = "running"
  /\ sigLeft' = sigLeft - 1
  /\ UNCHANGED <<mpc, op, should_stop, sigInstalled, print_lock, checkpoint_lock, memVars,
                 execVars, fileVars, down, opsLeft, faultsLeft, histVars, outsideHarvest>>

\* signal_handler: seven progress_print calls, each taking print_lock, then
\* should_stop = True.
H_Run ==
  /\ hpc = "running"
  /\ print_lock = "free"
  /\ should_stop' = TRUE
  /\ hpc' = "idle"
  /\ UNCHANGED <<mpc, op, sigInstalled, print_lock, checkpoint_lock, memVars, execVars,
                 fileVars, envVars, histVars, outsideHarvest>>

(***************************************************************************)
(* Part IV.  The serial fetcher's rate limit (imvbox_scraper.py,           *)
(*           imvbox_scraper_v4.py: the same fetch_url)                     *)
(***************************************************************************)

\* Bounds: how long the clock is followed, how many requests are made.
MaxTicks == 6
MaxRequests == 3

\* RATE_LIMIT_SEC = 0.5, in ticks of a tenth of a second.
RATE_LIMIT_SEC == 5

NoTime == 0 - 1

\* A process that has just started: last_request_time = 0, and time.time() is
\* far more than RATE_LIMIT_SEC past it.
FetchInitVars ==
  /\ now = RATE_LIMIT_SEC
  /\ last_request_time = 0
  /\ fpc = "idle" /\ wakeAt = 0
  /\ reqStart = NoTime /\ prevStart = NoTime /\ nreq = 0

\* session.get(url, timeout=30) is entered.
StartRequest ==
  /\ fpc' = "requesting"
  /\ prevStart' = reqStart
  /\ reqStart' = now
  /\ nreq' = nreq + 1

\* fetch_url is called: it sleeps for what is missing to RATE_LIMIT_SEC since
\* last_request_time, or goes straight to the request.
F_Call ==
  /\ fpc = "idle" /\ nreq < MaxRequests
  /\ LET elapsed == now - last_request_time IN
       IF elapsed < RATE_LIMIT_SEC
       THEN /\ fpc' = "sleeping"
            /\ wakeAt' = now + (RATE_LIMIT_SEC - elapsed)
            /\ UNCHANGED <<reqStart, prevStart, nreq>>
       ELSE StartRequest /\ UNCHANGED wakeAt
  /\ UNCHANGED <<now, last_request_time, outsideFetch>>

\* time.sleep returns, not before its time.
F_Wake ==
  /\ fpc = "sleeping" /\ now >= wakeAt
  /\ StartRequest
  /\ UNCHANGED <<now, last_request_time, wakeAt, outsideFetch>>

\* session.get returns a response (200, 404 or another status):
\* last_request_time = time.time(), then the text or None is returned.
F_Respond(status) ==
  /\ fpc = "requesting"
  /\ last_request_time' = now
  /\ fpc' = "idle"
  /\ UNCHANGED <<now, wakeAt, reqStart, prevStart, nreq, outsideFetch>>

\* session.get raises (connection error, timeout): the except clause prints
\* and returns None.
F_Raise ==
  /\ fpc = "requesting"
  /\ fpc' = "idle"
  /\ UNCHANGED <<now, last_request_time, wakeAt, reqStart, prevStart, nreq, outsideFetch>>

\* A tenth of a second passes.
Tick ==
  /\ now < RATE_LIMIT_SEC + MaxTicks
  /\ now' = now + 1
  /\ UNCHANGED <<last_request_time, fpc, wakeAt, reqStart, prevStart, nreq, outsideFetch>>

FetchIdle == FetchInitVars

(***************************************************************************)
(* Part V.  One batch of detail pages of the async scraper                 *)
(*          (imvbox_scraper_async.py: fetch_url, scrape_movies)            *)
(***************************************************************************)

\* Bound: the movies of one list page.
MaxItems == 11

\* MAX_CONCURRENT = 10
MAX_CONCURRENT == 10

Items == 1..MaxItems
ItemSlug(i) == <<"movie", i>>
ItemUrl(i) == <<"/movies/", ItemSlug(i)>>

\* The ways a request ends: status 200, 404, another status, an exception.
Outcomes == <<"200", "404", "500", "exception">>

\* How the site answers the request for item i.
OutcomeOf(site, i) == Outcomes[((i + site) % Len(Outcomes)) + 1]

\* What fetch_url returns: the text of the page at url, or None.
PageText(url) == <<"html", url>>
PyNone == <<"None">>
Pending == <<"pending">>

\* generate_id: the first 8 hex digits of the MD5 of "prefix:slug".
generate_id(prefix, slug) == <<"md5[:8]", prefix, slug>>

AsyncInitVars ==
  /\ aSite \in 0..(Len(Outcomes) - 1)
  /\ apc = [i \in Items |-> "new"]
  /\ ares = [i \in Items |-> Pending]
  /\ semValue = MAX_CONCURRENT
  /\ waiters = <<>>
  /\ cached = {}

AsyncIdle ==
  /\ aSite = 0 /\ apc = <<>> /\ ares = <<>>
  /\ semValue = MAX_CONCURRENT /\ waiters = <<>> /\ cached = {}

\* The task of fetch_url for item i starts to run (the tasks of a gather start
\* in the order of its arguments): "async with semaphore" takes a permit, or
\* queues behind the tasks already waiting.
A_Start(i) ==
  /\ i \in DOMAIN apc /\ apc[i] = "new"
  /\ \A j \in 1..(i - 1) : apc[j] # "new"
  /\ IF semValue > 0 /\ waiters = <<>>
     THEN /\ semValue' = semValue - 1
          /\ apc' = [apc EXCEPT ![i] = "fetching"]
          /\ UNCHANGED waiters
     ELSE /\ apc' = [apc EXCEPT ![i] = "waiting"]
          /\ waiters' = Append(waiters, i)
          /\ UNCHANGED semValue
  /\ UNCHANGED <<aSite, ares, cached, outsideAsync>>

\* The oldest waiter is woken by a release and takes the permit.
A_Resume ==
  /\ waiters # <<>> /\ semValue > 0
  /\ semValue' = semValue - 1
  /\ apc' = [apc EXCEPT ![Head(waiters)] = "fetching"]
  /\ waiters' = Tail(waiters)
  /\ UNCHANGED <<aSite, ares, cached, outsideAsync>>

\* A fetch_url that keeps its permit when session.get raises.
A_Respond_LeakOnException(i) ==
  /\ i \in DOMAIN apc /\ apc[i] = "fetching"
  /\ ares' = [ares EXCEPT ![i] =
                IF OutcomeOf(aSite, i) = "200" THEN PageText(ItemUrl(i)) ELSE PyNone]
  /\ apc' = [apc EXCEPT ![i] = "done"]
  /\ semValue' = IF OutcomeOf(aSite, i) = "exception" THEN semValue ELSE semValue + 1
  /\ UNCHANGED <<aSite, waiters, cached, outsideAsync>>

\* The request of item i ends, in whichever way: fetch_url returns the text
\* or None, and leaving "async with semaphore" gives the permit back.
A_Respond(i) ==
  /\ i \in DOMAIN apc /\ apc[i] = "fetching"
  /\ ares' = [ares EXCEPT ![i] =
                IF OutcomeOf(aSite, i) = "200" THEN PageText(ItemUrl(i)) ELSE PyNone]
  /\ apc' = [apc EXCEPT ![i] = "done"]
  /\ semValue' = semValue + 1
  /\ UNCHANGED <<aSite, waiters, cached, outsideAsync>>

\* asyncio.gather returns the results in the order of its arguments; the loop
\* over zip(new_movies, detail_htmls) stores one row per movie.
A_Store ==
  /\ apc # <<>> /\ \A i \in DOMAIN apc : apc[i] = "done"
  /\ cached = {}
  /\ LET detail_htmls == [i \in Items |-> ares[i]] IN
       cached' = {[id |-> generate_id("imvbox_movie", ItemSlug(i)),
                   farsilandUrl |-> ItemUrl(i),
                   details |-> detail_htmls[i]] : i \in Items}
  /\ UNCHANGED <<aSite, apc, ares, semValue, waiters, outsideAsync>>

\* Parts IV and V at rest.
ScriptsIdle == FetchIdle /\ AsyncIdle

(***************************************************************************)
(* Part VI.  Order-based dates of the serial scraper                       *)
(*           (imvbox_scraper_v4.py: calculate_order_based_date, main)      *)
(***************************************************************************)

\* Bounds: the list pages of a run, the cards of the longest page.
MaxListPages == 2
MaxCards == 61

\* "Each page is 1 hour apart, each item is 1 minute apart", in ms.
PageStepMs == 3600 * 1000
ItemStepMs == 60 * 1000

calculate_order_based_date(base_time, page, item_index) ==
  LET page_offset == (page - 1) * PageStepMs
      item_offset == item_index * ItemStepMs
  IN base_time - page_offset - item_offset

\* now = int(time.time() * 1000) of the runs considered.
BaseTimes == {0, MaxListPages * PageStepMs}

\* Numbers of div.card elements a list page may hold.
CardCounts == {1, MaxCards}

DatesInitVars ==
  /\ dBase \in BaseTimes
  /\ dCards \in [1..MaxListPages -> CardCounts]
  /\ dPage = 1 /\ dIndex = 0
  /\ dRows = <<>>

DatesIdle ==
  /\ dBase = 0 /\ dCards = <<>> /\ dPage = 1 /\ dIndex = 0 /\ dRows = <<>>

\* One iteration of "for item_index, movie in enumerate(movies)" for a movie
\* without uploadDate: the row is stored with the order-based date.
D_StoreItem ==
  /\ dPage <= Len(dCards) /\ dIndex < dCards[dPage]
  /\ dRows' = Append(dRows, [page |-> dPage, item_index |-> dIndex,
                            dateAdded |-> calculate_order_based_date(dBase, dPage, dIndex)])
  /\ dIndex' = dIndex + 1
  /\ UNCHANGED <<dBase, dCards, dPage, outsideDates>>

\* The cards of the page are done: "for page in range(1, MAX_PAGES + 1)"
\* goes on with the next list page.
D_NextPage ==
  /\ dPage <= Len(dCards) /\ dIndex = dCards[dPage]
  /\ dPage' = dPage + 1
  /\ dIndex' = 0
  /\ UNCHANGED <<dBase, dCards, dRows, outsideDates>>

(***************************************************************************)
(* Part VII.  Paginated fetch with retries                                 *)
(*            (rebuild_farsiland_db.py: fetch_paginated)                   *)
(***************************************************************************)

\* Bound: the pages of the longest endpoint.
MaxEndpointPages == 3

\* MAX_RETRIES = 5
MAX_RETRIES == 5

\* fetch_paginated is called on an endpoint of gTotal pages.
PaginateInitVars ==
  /\ gTotal \in 0..MaxEndpointPages
  /\ gHeader \in BOOLEAN
  /\ gpc = "request" /\ gPage = 1 /\ gAttempt = 0
  /\ gItems = <<>>
  /\ gReqs = [p \in 1..(MaxEndpointPages + 1) |-> 0]
  /\ gGaveUp = FALSE

PaginateIdle ==
  /\ gTotal = 0 /\ gHeader = FALSE /\ gpc = "returned" /\ gPage = 1 /\ gAttempt = 0
  /\ gItems = <<>> /\ gReqs = <<>> /\ gGaveUp = FALSE

\* int(response.headers.get("X-WP-TotalPages", 1))
TotalPagesHeader == IF gHeader THEN gTotal ELSE 1

\* A fetch_paginated whose attempts are counted over the whole call and not
\* per page.
G_Respond_KeepAttempt ==
  /\ gpc = "request"
  /\ gReqs' = [gReqs EXCEPT ![gPage] = @ + 1]
  /\ IF gPage > gTotal
     THEN /\ gpc' = "returned"
          /\ UNCHANGED <<gPage, gAttempt, gItems>>
     ELSE /\ gItems' = Append(gItems, gPage)
          /\ IF gPage >= TotalPagesHeader
             THEN gpc' = "returned" /\ UNCHANGED <<gPage, gAttempt>>
             ELSE gPage' = gPage + 1 /\ UNCHANGED <<gpc, gAttempt>>
  /\ UNCHANGED <<gTotal, gHeader, gGaveUp, outsidePaginate>>

\* session.get returns a response that is not an error.  Past the last page
\* the answer is status 400 or an empty list, and all_items is returned.
\* Otherwise the items are added; at the last page by the header all_items is
\* returned, else page += 1 and "break" leaves the attempts loop, which
\* starts again at attempt 0 for the new page.
G_Respond ==
  /\ gpc = "request"
  /\ gReqs' = [gReqs EXCEPT ![gPage] = @ + 1]
  /\ IF gPage > gTotal
     THEN /\ gpc' = "returned"
          /\ UNCHANGED <<gPage, gAttempt, gItems>>
     ELSE /\ gItems' = Append(gItems, gPage)
          /\ IF gPage >= TotalPagesHeader
             THEN gpc' = "returned" /\ UNCHANGED <<gPage, gAttempt>>
             ELSE gPage' = gPage + 1 /\ gAttempt' = 0 /\ UNCHANGED gpc
  /\ UNCHANGED <<gTotal, gHeader, gGaveUp, outsidePaginate>>

\* session.get or raise_for_status raises a RequestException: back off and
\* try again, or give up at the last attempt and return all_items.
G_Fail ==
  /\ gpc = "request"
  /\ gReqs' = [gReqs EXCEPT ![gPage] = @ + 1]
  /\ IF gAttempt < MAX_RETRIES - 1
     THEN gAttempt' = gAttempt + 1 /\ UNCHANGED <<gpc, gGaveUp>>
     ELSE gpc' = "returned" /\ gGaveUp' = TRUE /\ UNCHANGED gAttempt
  /\ UNCHANGED <<gTotal, gHeader, gPage, gItems, outsidePaginate>>

(***************************************************************************)
(* Part VIII.  Catalogue discovery (namakadeh_master_scraper.py:           *)
(*             discover_catalog_from_website)                              *)
(***************************************************************************)

\* The type of the category a URL is listed under (categories, lines 645-653).
CategoryType(url) ==
  IF url[1] \in {"/iran-1-movies/", "/foreign-movies/"} THEN "movie" ELSE "series"

\* new_show, lines 740-750: the id is the last path segment of the URL.
DiscoveredShow(url) ==
  [id |-> LastSegment(url), url |-> url, type |-> CategoryType(url)]

\* What the site can list, in the order of the categories: two movies and
\* two series whose URLs end in the same segment.
SiteItems == <<UrlM, UrlBatch(1), UrlSX1, UrlSX2>>

\* A scan finds any part of that, each item with or without a title.
DiscoveryListings ==
  UNION {{[i \in DOMAIN urls |-> [url |-> urls[i], titled |-> i \notin untitled]] :
            untitled \in SUBSET DOMAIN urls} : urls \in SubSeqs(SiteItems)}

\* The shows of the checkpoint before the scan: what earlier scans added.
DiscoveryCheckpoints == SubSeqs(<<DiscoveredShow(UrlM), DiscoveredShow(UrlSX1)>>)

\* discover_catalog_from_website after 'yes' (lines 663-666).
DiscoveryInitVars ==
  /\ kListing \in DiscoveryListings
  /\ kShows \in DiscoveryCheckpoints
  /\ kExistingUrls = {kShows[i].url : i \in DOMAIN kShows}
  /\ discovered_shows = <<>>
  /\ kpc = "scan" /\ kPos = 1

DiscoveryIdle ==
  /\ kListing = <<>> /\ kShows = <<>> /\ kExistingUrls = {} /\ discovered_shows = <<>>
  /\ kpc = "idle" /\ kPos = 1

\* One item of a category page (lines 713-757): skipped when its URL is in
\* existing_urls or when it has no title, otherwise added as a new show.
K_Item ==
  /\ kpc = "scan" /\ kPos <= Len(kListing)
  /\ LET url == kListing[kPos].url IN
       IF url \in kExistingUrls \/ ~kListing[kPos].titled
       THEN UNCHANGED <<discovered_shows, kExistingUrls>>
       ELSE /\ discovered_shows' = Append(discovered_shows, DiscoveredShow(url))
            /\ kExistingUrls' = kExistingUrls \cup {url}
  /\ kPos' = kPos + 1
  /\ UNCHANGED <<kListing, kpc, kShows, outsideDiscovery>>

\* The end of the scan (lines 783-800): after 'yes' the discovered shows are
\* added to checkpoint['shows'].
K_Merge(confirm) ==
  /\ kpc = "scan" /\ kPos > Len(kListing)
  /\ kShows' = IF discovered_shows # <<>> /\ confirm
               THEN kShows \o discovered_shows
               ELSE kShows
  /\ kpc' = "done"
  /\ UNCHANGED <<kListing, kPos, kExistingUrls, discovered_shows, outsideDiscovery>>

(***************************************************************************)
(* Part IX.  Database writes (farsiplex_scraper_dooplay.py:                *)
(*           save_movie_to_db, save_tvshow_to_db)                          *)
(***************************************************************************)

\* Bounds: the video sources of one movie or episode, the saves of one item.
MaxSources == 2
MaxSaves == 2

\* The tables after init_database (lines 58-190).  movie_videos and
\* episode_videos are lists: their key is an AUTOINCREMENT id, the place in
\* the list.  season_seq is the AUTOINCREMENT counter of seasons.
EmptyDb ==
  [cached_movies |-> {}, movie_genres |-> {}, movie_videos |-> <<>>,
   cached_series |-> {}, tvshow_genres |-> {}, seasons |-> {}, season_seq |-> 0,
   cached_episodes |-> {}, episode_videos |-> <<>>]

\* The environment of the ID computations of a save.
DbEnv == [seed |-> 0, calls |-> 0]

\* The lists of video sources a page can yield.
RECURSIVE VideoLists(_)
VideoLists(n) ==
  IF n = 0 THEN {<<>>}
  ELSE LET shorter == VideoLists(n - 1)
       IN shorter \cup {Append(v, u) : v \in {w \in shorter : Len(w) = n - 1},
                                       u \in {"cdn1", "cdn2"}}

\* movie_data as scrape_movie returns it; titled: the page gave a title.
MovieItems ==
  {[kind |-> "movie", slug |-> sl, titled |-> ti, genres |-> ge, video_sources |-> vs] :
     sl \in {"breaking-bad", "the-last-of-us"}, ti \in BOOLEAN,
     ge \in SUBSET {"drama"}, vs \in VideoLists(MaxSources)}

\* tvshow_data as scrape_tvshow returns it: no season, a season without
\* episodes, or a season with one episode.  videos is what
\* scrape_episode_videos finds on the episode's page.
TvShowItems ==
  {[kind |-> "tvshow", slug |-> "game-of-thrones", titled |-> ti, genres |-> ge,
    seasons |-> se] :
     ti \in BOOLEAN, ge \in SUBSET {"drama"},
     se \in {<<>>, <<[season_number |-> 1, episodes |-> <<>>]>>}
            \cup {<<[season_number |-> 1,
                     episodes |-> <<[episode_number |-> 1, slug |-> "the-last-of-us",
                                     videos |-> vs]>>]>> : vs \in VideoLists(MaxSources)}}

\* The rows of one list of video sources.
VideoRows(owner, sources) ==
  [i \in DOMAIN sources |-> [owner_id |-> owner, url |-> sources[i]]]

\* save_movie_to_db: INSERT OR REPLACE of the movie row (keys id and slug),
\* INSERT OR IGNORE of the genres, a plain INSERT per video source, commit.
\* A movie without title violates NOT NULL: the except clause rolls back.
save_movie_to_db(d, movie_data) ==
  IF ~movie_data.titled THEN d
  ELSE LET movie_id == generate_stable_id(DbEnv, movie_data.slug) IN
    [d EXCEPT
       !.cached_movies = {r \in @ : r.id # movie_id /\ r.slug # movie_data.slug}
                           \cup {[id |-> movie_id, slug |-> movie_data.slug]},
       !.movie_genres = @ \cup {<<movie_id, g>> : g \in movie_data.genres},
       !.movie_videos = @ \o VideoRows(movie_id, movie_data.video_sources)]

\* The episodes loop of save_tvshow_to_db (lines 738-775): INSERT OR REPLACE
\* of the episode row (keys id, slug, and season_id with episode_number) and a
\* plain INSERT per video source found on the episode's page.
RECURSIVE SaveEpisodes(_, _, _, _)
SaveEpisodes(d, tvshow_id, season_id, episodes) ==
  IF episodes = <<>> THEN d
  ELSE LET episode_data == Head(episodes)
           episode_id == generate_stable_id(DbEnv, episode_data.slug)
           row == [id |-> episode_id, tvshow_id |-> tvshow_id, season_id |-> season_id,
                   episode_number |-> episode_data.episode_number,
                   slug |-> episode_data.slug]
           d1 == [d EXCEPT
                    !.cached_episodes =
                       {r \in @ : /\ r.id # row.id
                                  /\ r.slug # row.slug
                                  /\ ~(r.season_id = row.season_id
                                       /\ r.episode_number = row.episode_number)}
                         \cup {row},
                    !.episode_videos = @ \o VideoRows(episode_id, episode_data.videos)]
       IN SaveEpisodes(d1, tvshow_id, season_id, Tail(episodes))

\* The seasons loop (lines 725-775): INSERT OR REPLACE of the season row (key
\* tvshow_id with season_number; the replaced row is deleted and the new one
\* gets the next AUTOINCREMENT id, which cursor.lastrowid returns).
RECURSIVE SaveSeasons(_, _, _)
SaveSeasons(d, tvshow_id, seasons) ==
  IF seasons = <<>> THEN d
  ELSE LET season_data == Head(seasons)
           season_id == d.season_seq + 1
           d1 == [d EXCEPT
                    !.seasons = {r \in @ : ~(r.tvshow_id = tvshow_id
                                            /\ r.season_number = season_data.season_number)}
                                  \cup {[id |-> season_id, tvshow_id |-> tvshow_id,
                                         season_number |-> season_data.season_number]},
                    !.season_seq = season_id]
       IN SaveSeasons(SaveEpisodes(d1, tvshow_id, season_id, season_data.episodes),
                      tvshow_id, Tail(seasons))

\* save_tvshow_to_db: the series row, the genres, the seasons with their
\* episodes, commit.  A show without title violates NOT NULL: rollback.
save_tvshow_to_db(d, tvshow_data) ==
  IF ~tvshow_data.titled THEN d
  ELSE LET tvshow_id == generate_stable_id(DbEnv, tvshow_data.slug)
           d1 == [d EXCEPT
                    !.cached_series = {r \in @ : r.id # tvshow_id /\ r.slug # tvshow_data.slug}
                                        \cup {[id |-> tvshow_id, slug |-> tvshow_data.slug]},
                    !.tvshow_genres = @ \cup {<<tvshow_id, g>> : g \in tvshow_data.genres}]
       IN SaveSeasons(d1, tvshow_id, tvshow_data.seasons)

\* A fresh database and one scraped item.
DbInitVars ==
  /\ db = EmptyDb
  /\ dbItem \in MovieItems \cup TvShowItems
  /\ dbSaved = 0
  /\ dbOnce = EmptyDb

NoItem == [kind |-> "none"]

DbIdle == db = EmptyDb /\ dbItem = NoItem /\ dbSaved = 0 /\ dbOnce = EmptyDb

\* The scraper saves the movie (run_full_scrape; again on a later run).
DB_SaveMovie ==
  /\ dbItem.kind = "movie" /\ dbSaved < MaxSaves
  /\ db' = save_movie_to_db(db, dbItem)
  /\ dbSaved' = dbSaved + 1
  /\ dbOnce' = IF dbSaved = 0 THEN db' ELSE dbOnce
  /\ UNCHANGED <<dbItem, outsideDb>>

\* The scraper saves the TV show.
DB_SaveTvShow ==
  /\ dbItem.kind = "tvshow" /\ dbSaved < MaxSaves
  /\ db' = save_tvshow_to_db(db, dbItem)
  /\ dbSaved' = dbSaved + 1
  /\ dbOnce' = IF dbSaved = 0 THEN db' ELSE dbOnce
  /\ UNCHANGED <<dbItem, outsideDb>>

\* The later parts at rest.
ToolsIdle == DatesIdle /\ PaginateIdle /\ DiscoveryIdle /\ DbIdle

\* ---- specifications

IdNext ==
  \/ \E p \in Procs, slug \in Slugs : ComputeId(p, slug)
  \/ \E p \in Procs, seed \in 0..MaxSeed : RestartProcess(p, seed)

\* Part III at rest.
AnIdle == anIn = <<>> /\ anOut = <<>>

\* Parts I to V at rest.
CoreIdle == IdIdle /\ HarvestIdle /\ AnIdle /\ ScriptsIdle

IdInit == IdInitVars /\ HarvestIdle /\ AnIdle /\ ScriptsIdle /\ ToolsIdle

SpecId == IdInit /\ [][IdNext]_vars

\* The scraper writes shows, the analysis script is run on the database; each
\* run is a process of its own.
LookupNext ==
  \/ \E p \in Procs, slug \in Slugs : SaveTvShow(p, slug)
  \/ \E p \in Procs, slug \in Slugs : AnalyzeMissing(p, slug)
  \/ \E p \in Procs, seed \in 0..MaxSeed : RestartProcess(p, seed)

SpecLookup == IdInit /\ [][LookupNext]_vars

Init ==
  /\ IdIdle /\ AnIdle /\ ScriptsIdle /\ ToolsIdle
  /\ HarvestInitVars(InitialCheckpoints, MaxOps, MaxSignals, MaxFaults, MaxDown)

Next ==
  \/ \E nw \in 1..MaxWorkers, confirm \in BOOLEAN : M_RunStart(nw, confirm)
  \/ \E nw \in 1..MaxWorkers, confirm \in BOOLEAN : M_VerifyStart(nw, confirm)
  \/ M_LoadCrash
  \/ M_Submit
  \/ \E t \in DOMAIN tpc : W_Start(t)
  \/ \E t \in DOMAIN tpc : W_Get(t)
  \/ \E t \in DOMAIN tpc : W_Video(t)
  \/ \E t \in DOMAIN tpc : W_ScrapeEpisode(t)
  \/ \E t \in DOMAIN tpc : W_ExtractEpisode(t)
  \/ \E t \in DOMAIN tpc : W_VerifyGet(t)
  \/ \E t \in DOMAIN tpc : W_VerifyEpisode(t)
  \/ \E t \in DOMAIN tpc : M_Collect(t)
  \/ \E raised \in BOOLEAN : M_Printed(raised)
  \/ M_FinalSaveBegin
  \/ \E ok \in BOOLEAN : M_SaveEnd(ok)
  \/ M_Return
  \/ Restart
  \/ Interrupt
  \/ H_Run

Spec == Init /\ [][Next]_vars

\* One run_complete_scrape over a catalogue of BatchSize unscraped movies, long
\* enough for the periodic save, with a pool of one thread; the loop body may
\* raise once.
InitBatch ==
  IdIdle /\ HarvestInitVars({BatchCheckpoint}, 1, 0, 1, 0) /\ AnIdle /\ ScriptsIdle /\ ToolsIdle

\* The oldest finished future not yet handed over.  With one pool thread the
\* futures finish in the order of submission, and as_completed hands over in
\* the order of finishing.
OldestDone(t) ==
  /\ tpc[t] = "done" /\ t \notin processed
  /\ \A u \in 1..(t - 1) : ~(tpc[u] = "done" /\ u \notin processed)

NextBatch ==
  \/ \E confirm \in BOOLEAN : M_RunStart(1, confirm)
  \/ M_Submit
  \/ \E t \in DOMAIN tpc : W_Start(t)
  \/ \E t \in DOMAIN tpc : W_Get(t)
  \/ \E t \in DOMAIN tpc : W_Video(t)
  \/ \E t \in DOMAIN tpc : OldestDone(t) /\ M_Collect(t)
  \/ \E raised \in BOOLEAN : M_Printed(raised)
  \/ M_FinalSaveBegin
  \/ \E ok \in BOOLEAN : M_SaveEnd(ok)
  \/ Restart

SpecBatch == InitBatch /\ [][NextBatch]_vars

\* What verify_series_completeness leaves when the listing of ShowSX1 has
\* shifted: two episode dicts with one id.
DuplicateEpisodes ==
  PriorEpisodes \o <<NewEpisode(ShowSX1, 1, EpUrl(UrlSX1, 2), <<"mp4", EpUrl(UrlSX1, 2)>>)>>

\* The checkpoints the maintenance operations are applied to.
MaintenanceCheckpoints ==
  {CheckpointOf(<<ShowSX1>>, eps) : eps \in {<<>>, PriorEpisodes, DuplicateEpisodes}}
  \cup {[CheckpointOf(<<ShowSX1, ShowM>>, DuplicateEpisodes) EXCEPT !.phase = "complete"]}

\* The menu with options 7 and 8 only; a save may fail.
InitMaintenance ==
  /\ IdIdle /\ AnIdle /\ ScriptsIdle /\ ToolsIdle
  /\ HarvestInitVars(MaintenanceCheckpoints, MaxOps, 0, MaxFaults, 0)

NextMaintenance ==
  \/ \E choice \in {"1", "2", "x"} : M_ResetPhase(choice)
  \/ \E confirm \in BOOLEAN : M_CleanDuplicates(confirm)
  \/ M_LoadCrash
  \/ \E ok \in BOOLEAN : M_SaveEnd(ok)
  \/ M_Return
  \/ Restart

SpecMaintenance == InitMaintenance /\ [][NextMaintenance]_vars

(***************************************************************************)
(* Part III.  What the master scraper reads off a loaded checkpoint        *)
(***************************************************************************)

\* Bounds of the checkpoints analysed.
MaxShows == 2
MaxEpisodes == 2

\* The dict d without the key 'video_url'.
WithoutVideoKey(d) == [k \in DOMAIN d \ {"video_url"} |-> d[k]]

UrlSY == <<"/series/", <<"y", 0>>>>

\* total_episodes of the series considered: none ahead of the episodes
\* recorded, and just around the threshold ahead of them.
VerifyTotals == {1, VerifyThreshold + 1, VerifyThreshold + 2}

\* The show dicts a checkpoint may hold: a series with one of the totals, a
\* second series, and a movie whose video_url is absent, empty or set.
AnShows ==
  {NewShow(UrlSX1, "series", total) : total \in VerifyTotals}
  \cup {NewShow(UrlSY, "series", 1)}
  \cup {WithoutVideoKey(NewShow(UrlM, "movie", 0)),
        NewShow(UrlM, "movie", 0),
        [NewShow(UrlM, "movie", 0) EXCEPT !.video_url = <<"mp4", UrlM>>]}

\* The episode dicts a checkpoint may hold, all of the first series: video_url
\* absent, empty or set.
AnEpisodes ==
  {WithoutVideoKey(NewEpisode(ShowSX1, 1, EpUrl(UrlSX1, 1), NoVideo)),
   NewEpisode(ShowSX1, 1, EpUrl(UrlSX1, 1), NoVideo),
   NewEpisode(ShowSX1, 2, EpUrl(UrlSX1, 2), <<"mp4", EpUrl(UrlSX1, 2)>>)}

\* The lists of at most n elements of S.
SeqsUpTo(S, n) == UNION {[1..k -> S] : k \in 0..n}

\* The other keys of a checkpoint: 'phase', 'last_detail_index', 'created_at'.
Metas ==
  {[phase |-> "detail_scraping", last_detail_index |-> 0, created_at |-> 0],
   [phase |-> "complete", last_detail_index |-> 1, created_at |-> 1]}

\* load_checkpoint's dict.
LoadedCheckpoint(shows, episodes, meta) ==
  [valid |-> TRUE, shows |-> shows, episodes |-> episodes, phase |-> meta.phase,
   last_detail_index |-> meta.last_detail_index, created_at |-> meta.created_at]

\* The dict analyze_checkpoint_status returns (the lists, as positions).
analyze_checkpoint_status(checkpoint) ==
  [episodes_missing_urls |-> EpisodesMissingUrls(checkpoint.episodes),
   movies_missing_urls |-> MoviesMissingUrls(checkpoint.shows),
   series_without_episodes |-> SeriesWithoutEpisodes(checkpoint.shows, checkpoint.episodes),
   series_with_missing_urls |-> SeriesWithMissingUrls(checkpoint.shows, checkpoint.episodes)]

\* Nothing computed yet.  A computed value v is kept as <<v>>.
NoOutput == [tasks |-> <<<<>>, <<>>>>, status |-> <<>>, to_verify |-> <<>>]

\* Two checkpoint files with the same shows and episodes, and nothing else in
\* common.
AnalysisInitVars ==
  /\ \E shows \in SeqsUpTo(AnShows, MaxShows), episodes \in SeqsUpTo(AnEpisodes, MaxEpisodes),
        m1 \in Metas :
       \E m2 \in Metas \ {m1} :
       anIn = <<LoadedCheckpoint(shows, episodes, m1), LoadedCheckpoint(shows, episodes, m2)>>
  /\ anOut = NoOutput

\* run_complete_scrape on checkpoint k, up to "Start scraping ...?".
A_RunPlan(k) ==
  /\ anIn # <<>> /\ anOut.tasks[k] = <<>>
  /\ anOut' = [anOut EXCEPT !.tasks[k] = <<TasksOfCheckpoint(anIn[k])>>]
  /\ UNCHANGED <<anIn, outsideAnalysis>>

\* print_status_report on the first checkpoint.
A_Status ==
  /\ anIn # <<>> /\ anOut.status = <<>>
  /\ anOut' = [anOut EXCEPT !.status = <<analyze_checkpoint_status(anIn[1])>>]
  /\ UNCHANGED <<anIn, outsideAnalysis>>

\* verify_series_completeness on the first checkpoint, up to
\* "Verify ... series?".
A_VerifyPlan ==
  /\ anIn # <<>> /\ anOut.to_verify = <<>>
  /\ anOut' = [anOut EXCEPT !.to_verify = <<SeriesToVerify(anIn[1].shows, anIn[1].episodes)>>]
  /\ UNCHANGED <<anIn, outsideAnalysis>>

InitAnalyze == IdIdle /\ HarvestIdle /\ AnalysisInitVars /\ ScriptsIdle /\ ToolsIdle

NextAnalyze ==
  \/ \E k \in 1..2 : A_RunPlan(k)
  \/ A_Status
  \/ A_VerifyPlan

SpecAnalyze == InitAnalyze /\ [][NextAnalyze]_vars

InitFetch == IdIdle /\ HarvestIdle /\ AnIdle /\ FetchInitVars /\ AsyncIdle /\ ToolsIdle

NextFetch ==
  \/ F_Call
  \/ F_Wake
  \/ \E status \in {200, 404, 500} : F_Respond(status)
  \/ F_Raise
  \/ Tick

SpecFetch == InitFetch /\ [][NextFetch]_vars

InitAsync == IdIdle /\ HarvestIdle /\ AnIdle /\ FetchIdle /\ AsyncInitVars /\ ToolsIdle

NextAsync ==
  \/ \E i \in Items : A_Start(i)
  \/ A_Resume
  \/ \E i \in Items : A_Respond(i)
  \/ A_Store

SpecAsync == InitAsync /\ [][NextAsync]_vars

InitDates == CoreIdle /\ DatesInitVars /\ PaginateIdle /\ DiscoveryIdle /\ DbIdle

NextDates ==
  \/ D_StoreItem
  \/ D_NextPage

SpecDates == InitDates /\ [][NextDates]_vars

InitPaginate == CoreIdle /\ DatesIdle /\ PaginateInitVars /\ DiscoveryIdle /\ DbIdle

NextPaginate ==
  \/ G_Respond
  \/ G_Fail

\* The function is running: a request that was made gets its answer or its
\* exception.
SpecPaginate == InitPaginate /\ [][NextPaginate]_vars /\ WF_vars(NextPaginate)

InitDiscovery == CoreIdle /\ DatesIdle /\ PaginateIdle /\ DiscoveryInitVars /\ DbIdle

NextDiscovery ==
  \/ K_Item
  \/ \E confirm \in BOOLEAN : K_Merge(confirm)

SpecDiscovery == InitDiscovery /\ [][NextDiscovery]_vars

InitDb == CoreIdle /\ DatesIdle /\ PaginateIdle /\ DiscoveryIdle /\ DbInitVars

NextDb ==
  \/ DB_SaveMovie
  \/ DB_SaveTvShow

SpecDb == InitDb /\ [][NextDb]_vars


\* C1: generate_stable_id is a pure function of the slug: every call for a
\* slug, in whichever process (hash seed) and after whichever earlier calls,
\* returns the same integer.
C1_StableIdIsPure ==
  /\ \A s \in Slugs : Cardinality(returned[s]) <= 1
  /\ \A p, q \in Procs, s \in Slugs :
       (idTable[p][s] # NoId /\ idTable[q][s] # NoId) => idTable[p][s] = idTable[q][s]

\* Two processes with different hash seeds have both computed the ID of one
\* slug, one of them after earlier calls.
C1_Witness ==
  \E p, q \in Procs, s \in Slugs :
    /\ procSeed[p] # procSeed[q]
    /\ idTable[p][s] # NoId /\ idTable[q][s] # NoId
    /\ procCalls[p] > 1

\* ---- what the claims speak about

DistinctIds(recs) == \A i, j \in DOMAIN recs : i # j => recs[i].id # recs[j].id

\* checkpoint['episodes'] and checkpoint['shows'] as lists of dicts.
MemEpisodes == [i \in DOMAIN all_episodes |-> epObj[all_episodes[i]]]
MemShows == [i \in DOMAIN all_shows |-> showObj[all_shows[i]]]

\* The operation has left its last statement (returned, or died after it).
OpEnded == op # "none" /\ mpc \in {"returned", "crashed"}

\* URLs of the shows that analyze_checkpoint_status reports as outstanding
\* work in checkpoint f.
GapUrls(f) ==
  {f.shows[i].url : i \in Range(MoviesMissingUrls(f.shows))
                        \cup Range(SeriesWithoutEpisodes(f.shows, f.episodes))
                        \cup Range(SeriesWithMissingUrls(f.shows, f.episodes))}

\* C2: every merge of a task result into the checkpoint's episode list keeps
\* the episode ids pairwise distinct (the checkpoints started from have
\* distinct ids).
C2_EpisodeIdsStayDistinct == DistinctIds(MemEpisodes)

\* Two results merged by run_complete_scrape, the one of task b after the one
\* of task a, hold different dicts r1, r2 with one id and different video URLs,
\* and no result merged later holds that id.
LastTwoWrites(a, b, r1, r2) ==
  /\ a < b
  /\ r1 \in Range(teps[mergeLog[a]]) /\ r2 \in Range(teps[mergeLog[b]])
  /\ r1 # r2
  /\ epObj[r1].id = epObj[r2].id
  /\ epObj[r1].video_url # epObj[r2].video_url
  /\ \A c \in DOMAIN mergeLog :
       c > b => \A r \in Range(teps[mergeLog[c]]) : epObj[r].id # epObj[r2].id

\* C3: when two tasks of run_complete_scrape return a record for the same
\* episode id with different video URLs, then after both merges the
\* accumulator holds exactly one record with that id, and it is the record of
\* the result merged last, field for field.
C3_LastWriteWins ==
  op = "run" =>
    \A a, b \in DOMAIN mergeLog :
      \A r1 \in Range(teps[mergeLog[a]]), r2 \in Range(teps[mergeLog[b]]) :
        LastTwoWrites(a, b, r1, r2) =>
          LET held == {p \in DOMAIN all_episodes : MemEpisodes[p].id = epObj[r2].id}
          IN /\ Cardinality(held) = 1
             /\ \A p \in held : all_episodes[p] = r2 /\ MemEpisodes[p] = epObj[r2]

\* C4: while save_checkpoint_safe is writing the checkpoint, no thread changes
\* a show or episode dict that the checkpoint holds.
C4_FlushExcludesMutation ==
  [][mpc = "saving" =>
       /\ \A i \in DOMAIN all_shows : showObj'[all_shows[i]] = showObj[all_shows[i]]
       /\ \A i \in DOMAIN all_episodes : epObj'[all_episodes[i]] = epObj[all_episodes[i]]]_vars

\* C5: once should_stop is set, no task that has not begun executing begins
\* executing.
C5_NoStartAfterStop ==
  [][should_stop =>
       \A t \in (DOMAIN tpc) \cap (DOMAIN tpc') :
         tpc[t] \in {"new", "queued"} => tpc'[t] \in {"new", "queued"}]_vars

\* C6: an operation in progress never gets stuck, also after an interrupt:
\* until it has returned, some thread (or the handler) can take its next step.
C6_InterruptDrains ==
  (op # "none" /\ mpc \notin {"returned", "crashed"}) => ENABLED Next

C8_FlushEveryTen == sinceFlush <= FlushEvery

\* C9: when run_complete_scrape has ended and saved its checkpoint, the show
\* of every task whose worker reported failure is in the gap set computed from
\* that checkpoint.
C9_FailedTaskIsGapAgain ==
  (OpEnded /\ op = "run" /\ dispatched /\ file.valid) =>
    \A t \in DOMAIN tasks :
      (tpc[t] = "done" /\ ~tok[t]) =>
        file.shows # <<>> /\ tasks[t].show \in DOMAIN file.shows
          /\ file.shows[tasks[t].show].url \in GapUrls(file)

\* C10: a second run_complete_scrape to completion leaves the checkpoint of
\* the first: the same show and episode records, no episode id twice.
C10_HarvestIdempotent ==
  (OpEnded /\ CompletedRunFile.valid /\ prevRunFile.valid) =>
    /\ Range(file.shows) = Range(prevRunFile.shows)
    /\ Range(file.episodes) = Range(prevRunFile.episodes)
    /\ DistinctIds(file.episodes)

\* C19: the tvshow_id with which analyze_missing_episodes looks for a show's
\* episodes is the id under which the scraper stored them.
C19_ReaderUsesWriterId ==
  lastQuery # NoQuery => lastQuery.tvshow_id = dbTvshowId[lastQuery.slug]

\* ---- the checkpoint analysed

AnShowList == anIn[1].shows
AnEpisodeList == anIn[1].episodes

\* C11: two checkpoints with the same shows and episodes give
\* run_complete_scrape the same tasks, whatever their phase, last_detail_index
\* and timestamps.
C11_TasksFromShowsAndEpisodes ==
  (/\ anIn # <<>>
   /\ anOut.tasks[1] # <<>> /\ anOut.tasks[2] # <<>>
   /\ anIn[1].shows = anIn[2].shows /\ anIn[1].episodes = anIn[2].episodes)
  => anOut.tasks[1] = anOut.tasks[2]

\* Both checkpoints were planned, they differ in phase, last_detail_index and
\* created_at, and there is something to scrape.
C11_Witness ==
  /\ anIn # <<>>
  /\ anOut.tasks[1] # <<>> /\ anOut.tasks[2] # <<>>
  /\ anIn[1].phase = "complete" /\ anIn[2].phase = "detail_scraping"
  /\ anIn[1].last_detail_index # anIn[2].last_detail_index
  /\ anIn[1].created_at # anIn[2].created_at
  /\ anOut.tasks[1][1] # <<>>

\* C12: the episodes analyze_checkpoint_status lists as missing a video URL
\* are exactly those whose video_url is empty or absent.
C12_MissingUrlEpisodes ==
  anOut.status # <<>> =>
    LET listed == Range(anOut.status[1].episodes_missing_urls) IN
      /\ listed \subseteq DOMAIN AnEpisodeList
      /\ \A i \in DOMAIN AnEpisodeList :
           i \in listed <=>
             \/ "video_url" \notin DOMAIN AnEpisodeList[i]
             \/ AnEpisodeList[i].video_url = NoVideo

\* The status was computed for a checkpoint with an episode without the key
\* (listed) and one with a video URL (not listed).
C12_Witness ==
  /\ anOut.status # <<>>
  /\ \E i, j \in DOMAIN AnEpisodeList :
       /\ "video_url" \notin DOMAIN AnEpisodeList[i]
       /\ i \in Range(anOut.status[1].episodes_missing_urls)
       /\ "video_url" \in DOMAIN AnEpisodeList[j]
       /\ AnEpisodeList[j].video_url # NoVideo
       /\ j \notin Range(anOut.status[1].episodes_missing_urls)

\* Number of episodes recorded for the show at position i.
Recorded(i) ==
  Cardinality({j \in DOMAIN AnEpisodeList : AnEpisodeList[j].show_id = AnShowList[i].id})

\* C13: a show is reported as a series without episodes exactly when its type
\* is series and no episode has its id as show_id.
C13_SeriesWithoutEpisodes ==
  anOut.status # <<>> =>
    LET listed == Range(anOut.status[1].series_without_episodes) IN
      /\ listed \subseteq DOMAIN AnShowList
      /\ \A i \in DOMAIN AnShowList :
           i \in listed <=> (AnShowList[i].type = "series" /\ Recorded(i) = 0)

\* The status was computed for a checkpoint with a series that has episodes
\* (not reported) and a show without episodes that is reported.
C13_Witness ==
  /\ anOut.status # <<>>
  /\ \E i \in DOMAIN AnShowList :
       /\ AnShowList[i].type = "series" /\ Recorded(i) > 0
       /\ i \notin Range(anOut.status[1].series_without_episodes)
  /\ \E i \in DOMAIN AnShowList :
       /\ Recorded(i) = 0
       /\ i \in Range(anOut.status[1].series_without_episodes)

\* total_episodes minus the number of episodes recorded, for position i.
Shortfall(i) == AnShowList[i].total_episodes - Recorded(i)

\* C14 as stated: a series with a shortfall of at most 20 and at least one
\* recorded episode is a verification candidate, one with a larger shortfall
\* is not.
C14_AsStated ==
  anOut.to_verify # <<>> =>
    \A i \in DOMAIN AnShowList :
      AnShowList[i].type = "series" =>
        /\ (Shortfall(i) <= VerifyThreshold /\ Recorded(i) > 0)
             => i \in Range(anOut.to_verify[1])
        /\ Shortfall(i) > VerifyThreshold => i \notin Range(anOut.to_verify[1])

\* C14, amended: a series with at least one recorded episode and a shortfall
\* of 1 to 20 is a verification candidate; one with a larger shortfall, or
\* with no shortfall at all, is not.
C14_CandidateWindow ==
  anOut.to_verify # <<>> =>
    \A i \in DOMAIN AnShowList :
      AnShowList[i].type = "series" =>
        /\ (Shortfall(i) >= 1 /\ Shortfall(i) <= VerifyThreshold /\ Recorded(i) > 0)
             => i \in Range(anOut.to_verify[1])
        /\ (Shortfall(i) > VerifyThreshold \/ Shortfall(i) <= 0)
             => i \notin Range(anOut.to_verify[1])

\* The candidates were chosen for a series exactly 20 episodes short (chosen).
C14_Witness ==
  /\ anOut.to_verify # <<>>
  /\ \E i \in DOMAIN AnShowList :
       /\ AnShowList[i].type = "series" /\ Recorded(i) > 0
       /\ Shortfall(i) = VerifyThreshold
       /\ i \in Range(anOut.to_verify[1])

\* C15: when clean_duplicates or reset_checkpoint_phase starts to write its
\* change, the checkpoint file as it was is among the backup copies.
C15_BackupBeforeDestructiveWrite ==
  [][(mpc = "menu" /\ op' \in {"reset", "clean"} /\ file' # file) => file \in backups']_vars

C17_RequestsSpacedApart ==
  prevStart # NoTime => reqStart - prevStart >= RATE_LIMIT_SEC

\* Requests of the async scraper inside session.get.
InFlight == Cardinality({i \in DOMAIN apc : apc[i] = "fetching"})

\* C18: at most MAX_CONCURRENT requests are in flight, every permit is either
\* in the semaphore or held by a request in flight, and when all requests have
\* ended all permits are back.
C18_PermitsBoundedAndReturned ==
  /\ InFlight <= MAX_CONCURRENT
  /\ semValue >= 0
  /\ semValue + InFlight = MAX_CONCURRENT
  /\ (\A i \in DOMAIN apc : apc[i] = "done") => semValue = MAX_CONCURRENT

\* MAX_CONCURRENT requests are in flight again: one request ended with an
\* exception, and the task that was waiting took the returned permit.
C18_Witness ==
  /\ InFlight = MAX_CONCURRENT /\ waiters = <<>> /\ semValue = 0
  /\ \E i \in DOMAIN apc : apc[i] = "done" /\ OutcomeOf(aSite, i) = "exception"
  /\ \E i \in DOMAIN apc : apc[i] = "fetching" /\ i > MAX_CONCURRENT

\* Every row of cached_movies holds, under the id of its movie, what was
\* fetched from that movie's URL (or nothing, when the fetch failed).
AsyncRowsHoldOwnPage ==
  \A row \in cached :
    \E i \in Items :
      /\ row.id = generate_id("imvbox_movie", ItemSlug(i))
      /\ row.farsilandUrl = ItemUrl(i)
      /\ row.details \in {PyNone, PageText(ItemUrl(i))}

\* C20: in run_complete_scrape every position of checkpoint['shows'] holds the
\* show loaded there, updated by the results of its own tasks only: no result
\* is merged into the place of another show, in whichever order the futures
\* complete.
C20_ResultMergedForItsShow ==
  op = "run" => \A i \in DOMAIN all_shows : all_shows[i] = i

\* C21: of two rows stored with order-based dates, the one from the earlier
\* page, or from the earlier place on the same page, has the strictly greater
\* date.
C21_DatesFollowListingOrder ==
  \A a, b \in DOMAIN dRows :
    (\/ dRows[a].page < dRows[b].page
     \/ (dRows[a].page = dRows[b].page /\ dRows[a].item_index < dRows[b].item_index))
    => dRows[a].dateAdded > dRows[b].dateAdded

\* What holds at every moment of fetch_paginated: no page is requested more
\* than MAX_RETRIES times, all_items holds the pages before the current one
\* in order (the current one too once it was fetched and the function
\* returned), and giving up happens at the MAX_RETRIES-th request of the
\* page, with the earlier pages returned.
PaginateSafe ==
  /\ \A p \in DOMAIN gReqs : gReqs[p] <= MAX_RETRIES
  /\ gItems \in {[i \in 1..(gPage - 1) |-> i], [i \in 1..gPage |-> i]}
  /\ gpc = "request" => gItems = [i \in 1..(gPage - 1) |-> i]
  /\ gGaveUp => /\ gpc = "returned"
                /\ gReqs[gPage] = MAX_RETRIES
                /\ gItems = [i \in 1..(gPage - 1) |-> i]

\* C23: fetch_paginated returns on every finite endpoint, whatever fails;
\* each page is requested at most MAX_RETRIES times, counted per page; the
\* page advances only after a success; after MAX_RETRIES failures of a page
\* the items of the earlier pages are returned.
C23_PaginatedFetchTerminates ==
  []PaginateSafe /\ <>(gpc = "returned")

\* The function gave up on a later page and returned the earlier pages, after
\* a page that needed retries.
C23_Witness ==
  /\ gpc = "returned" /\ gGaveUp /\ gPage > 1
  /\ gItems = [i \in 1..(gPage - 1) |-> i]
  /\ \E p \in 1..(gPage - 1) : gReqs[p] > 1

\* The list cleaned holds one dict per id of the list original, each the
\* last dict of original with its id.
OnePerIdLastOccurrence(cleaned, original) ==
  /\ DistinctIds(cleaned)
  /\ \A i \in DOMAIN original : \E k \in DOMAIN cleaned : cleaned[k].id = original[i].id
  /\ \A k \in DOMAIN cleaned : \E i \in DOMAIN original :
       /\ cleaned[k] = original[i]
       /\ \A j \in DOMAIN original : j > i => original[j].id # original[i].id

\* The checkpoint file holds one episode per id of the list of a backup, each
\* the last with its id, the rest of that checkpoint as it was, and a further
\* clean_duplicates would find no duplicate.
CleanedCheckpoint ==
  /\ file.valid
  /\ \E b \in backups : /\ Len(b.episodes) > Len(file.episodes)
                        /\ OnePerIdLastOccurrence(file.episodes, b.episodes)
                        /\ file.shows = b.shows /\ file.phase = b.phase
  /\ UniqueEpisodes(file.episodes) = file.episodes

\* C22: when a confirmed clean_duplicates has returned, the checkpoint holds
\* one episode per id of the list it started from, each the last with its
\* id, and a second clean_duplicates would change nothing.
C22_CleanKeepsLastPerId ==
  (op = "clean" /\ mpc = "returned") => CleanedCheckpoint

\* The same for the clean_duplicates whose save reported True.
CleanSavedKeepsLastPerId ==
  (op = "clean" /\ mpc = "returned" /\ lastSaveOk) => CleanedCheckpoint

\* C24: when run_complete_scrape starts its final save with phase
\* 'complete', the stop flag is not set and every task it dispatched has
\* ended with success.
C24_CompleteOnlyAfterFullSuccess ==
  [][(op = "run" /\ saveKind # "final" /\ saveKind' = "final" /\ saveBuf'.phase = "complete") =>
       /\ ~should_stop
       /\ \A t \in DOMAIN tpc : tpc[t] # "new" => (tpc[t] = "done" /\ tok[t])]_vars

\* C25: run_complete_scrape and verify_series_completeness enter their
\* submit loops with the stop flag clear, whatever was interrupted before.
C25_StopFlagClearAtStart ==
  [][(op = "none" /\ op' \in {"run", "verify"} /\ mpc' = "submit") => ~should_stop']_vars

\* The scrape tasks of this operation that the stop flag cut short: the
\* result holds fewer episodes than the series page lists.
CutShort ==
  {t \in processed : /\ tasks[t].kind = "scrape" /\ tok[t]
                     /\ Len(teps[t]) < Len(SiteGrid(TaskShow(t).url))}

\* C26: when run_complete_scrape has returned and the checkpoint is saved,
\* every series whose scrape was cut short is among the gaps that
\* analyze_checkpoint_status finds in the saved checkpoint.
C26_CutShortSeriesStaysGap ==
  (op = "run" /\ mpc = "returned" /\ file.valid) =>
    \A t \in CutShort : TaskShow(t).url \in GapUrls(file)

\* C27: when a save_checkpoint_safe ends in failure, the checkpoint file
\* still holds a checkpoint that load_checkpoint can return.
C27_FailedSaveKeepsCheckpoint ==
  [][(mpc = "saving" /\ mpc' # "saving" /\ ~lastSaveOk') => file'.valid]_vars

\* C28: after discover_catalog_from_website has merged what it found, the
\* shows of the checkpoint have pairwise distinct ids.
C28_ShowIdsDistinctAfterDiscovery ==
  kpc = "done" => DistinctIds(kShows)

\* The URLs, by which the scan de-duplicates, are pairwise distinct.
ShowUrlsDistinctAfterDiscovery ==
  kpc = "done" => \A i, j \in DOMAIN kShows : i # j => kShows[i].url # kShows[j].url

\* The browsers created and not yet quit: setup_browser runs in the submit
\* loop, as an argument of executor.submit, and the task's finally clause
\* calls driver.quit().
OpenBrowsers == {t \in DOMAIN tpc : tpc[t] \notin {"new", "done"}}

\* C30: during run_complete_scrape at most num_workers browsers are open.
C30_BrowsersBoundedByWorkers ==
  op = "run" => Cardinality(OpenBrowsers) <= num_workers

\* The rows of the tables, without the AUTOINCREMENT counter.
Rows(d) == [d EXCEPT !.season_seq = 0]

\* C29: after the second and every later save of the same item the tables
\* hold the rows they held after the first save, and movie_videos and
\* episode_videos hold no row twice.
C29_SavingTwiceIsSavingOnce ==
  dbSaved >= 2 =>
    /\ Rows(db) = Rows(dbOnce)
    /\ \A i, j \in DOMAIN db.movie_videos :
         i # j => db.movie_videos[i] # db.movie_videos[j]
    /\ \A i, j \in DOMAIN db.episode_videos :
         i # j => db.episode_videos[i] # db.episode_videos[j]

\* The same for the tables with a primary key or a UNIQUE constraint that
\* does not involve an AUTOINCREMENT id.
KeyedTablesSavedOnce ==
  dbSaved >= 2 =>
    /\ db.cached_movies = dbOnce.cached_movies
    /\ db.movie_genres = dbOnce.movie_genres
    /\ db.cached_series = dbOnce.cached_series
    /\ db.tvshow_genres = dbOnce.tvshow_genres

====
